---- MODULE Spec2Model ----
(***************************************************************************)
(* Message-passing agent pipelines of ai_multi_agent.                      *)
(*                                                                         *)
(*   "p2p"  : 2_Multi_Agent_P2P_NATS          client -> researcher ->      *)
(*            writer -> verifier -> (writer | done)                        *)
(*   "hier" : 3_Multi_Agent_Hierarchical_NATS client -> chief -> section   *)
(*            editor -> writer -> verifier -> (writer | done)              *)
(*                                                                         *)
(* Scores are in tenths (7.0 is 70).  A message id (uuid4) is modelled as  *)
(* the path of child indices from the root publication, so ids are fresh   *)
(* and the lineage of an envelope can be read off its id.  A text is the   *)
(* set of markers the scoring heuristics look for, plus the id of the      *)
(* envelope it was written for.                                            *)
(***************************************************************************)
EXTENDS Integers, Sequences, FiniteSets, TLC

VARIABLES
    variant,    \* which deployment this run is: "p2p" or "hier"
    bus,        \* messages published and not yet consumed: [subject, data]
    roots,      \* the client runs started so far: conversation id, arguments
    hist,       \* per branch: the Verifier's decisions, in order
    last,       \* the most recent handler invocation: input, outputs, outcome
    rx          \* the receive loop of the aggregating client, on its clock

vars == <<variant, bus, roots, hist, last, rx>>

----------------------------------------------------------------------------
(* Bounds of the model *)

MaxRoots == 1
MaxRetryBudget == 2
MaxFanOut == 2
MaxBus == 2
MaxArrivals == 4
MaxMsgIds == 2
MaxClock == 24
MaxReplicas == 2

(* Program constants *)

MIN_ACCEPTABLE_SCORE == 70
ScoreFloor == 10
ScoreCeil == 100
HeuristicBase == 55
DefaultTtlMs == 15000
DefaultMaxRetries == 2
SendTaskMaxRetries == 2
MakeEnvelopeMaxRetries == 0
StopAfterAttempt == 3
DefaultPayloadMaxRetries == 2
PollTimeout == 2
ExitOk == 0

RESEARCH_IN_SUBJECT == "demo.research.in"
CHIEF_EDITOR_IN_SUBJECT == "demo.chief.in"
SECTION_EDITOR_IN_SUBJECT == "demo.section.in"
WRITE_IN_SUBJECT == "demo.write.in"
VERIFY_IN_SUBJECT == "demo.verify.in"
DONE_SUBJECT == "demo.done"

Variants == {"p2p", "hier"}

----------------------------------------------------------------------------
(* Python helpers *)

\* dict.get(key, default)
Get(d, k, default) == IF k \in DOMAIN d THEN d[k] ELSE default

Min(a, b) == IF a < b THEN a ELSE b
Max(a, b) == IF a > b THEN a ELSE b

\* the empty string
EmptyText == [id |-> <<>>, marks |-> {}]

IsDatetime(v) == v[1] = "datetime"

----------------------------------------------------------------------------
(* Trace context *)

\* A traceparent is the sequence of its "-"-separated fields; a field is its
\* length, whether all its characters are hex digits, and its content: the
\* text `lit`, or the random digits drawn for `fresh`.
Field(len, hex, lit) == [len |-> len, hex |-> hex, id |-> [lit |-> lit]]

\* secrets.token_hex(nbytes)
token_hex(nbytes, fresh) == [len |-> 2 * nbytes, hex |-> TRUE, id |-> [rand |-> fresh]]

Version00 == Field(2, TRUE, "00")

new_traceparent(fresh) ==
    <<Version00, token_hex(16, fresh), token_hex(8, fresh), Field(2, TRUE, "01")>>

\* common_trace.py (P2P): the parent must split into four fields
child_traceparent(parent, fresh) ==
    IF Len(parent) = 4
    THEN <<Version00, parent[2], token_hex(8, fresh), parent[4]>>
    ELSE new_traceparent(fresh)

\* the derivation keeps the parent's span
child_traceparentHierSameSpan(parent, fresh) ==
    IF Len(parent) = 4 THEN parent ELSE new_traceparent(fresh)

\* common_context.py (hierarchical): four fields, version "00", a trace id of
\* 32 characters and flags of 2
child_traceparentHier(parent, fresh) ==
    IF /\ Len(parent) = 4
       /\ parent[1] = Version00
       /\ parent[2].len = 32
       /\ parent[4].len = 2
    THEN <<Version00, parent[2], token_hex(8, fresh), parent[4]>>
    ELSE new_traceparent(fresh)

----------------------------------------------------------------------------
(* Envelope: construction, validation, derivation, wire format *)

\* pydantic field validators run at every construction of an envelope
ValidateP2P(e) == TRUE

ValidateHier(e) == e.ttl_ms > 0 /\ e.retries >= 0 /\ e.max_retries >= 0

RequiredKeys(v) ==
    IF v = "p2p"
    THEN {"conversation_id", "traceparent", "sender", "target", "payload"}
    ELSE {"sender", "target"}

\* what a message body can be instead of a JSON object: bytes that are not
\* UTF-8, text that is not JSON, JSON that is not an object
Undecodable == {[raw |-> k] : k \in {"nonutf8", "nonjson", "nonobject"}}

\* msg.data.decode("utf-8") and json.loads give a dict
Decodes(data) == data \notin Undecodable

\* msg.data.decode, json.loads, A2AEnvelope(**data): <<envelope>>, or <<>> when
\* one of them raises (UnicodeDecodeError, JSONDecodeError, TypeError,
\* ValidationError).
\* `fresh` seeds the default factories of the fields data does not give.
ParseP2P(data, fresh) ==
    IF ~Decodes(data) THEN <<>>
    ELSE IF ~(RequiredKeys("p2p") \subseteq DOMAIN data) THEN <<>>
    ELSE LET e == [envelope_version |-> Get(data, "envelope_version", "1.0"),
                   message_id |-> Get(data, "message_id", fresh),
                   conversation_id |-> data.conversation_id,
                   traceparent |-> data.traceparent,
                   sender |-> data.sender,
                   target |-> data.target,
                   ttl_ms |-> Get(data, "ttl_ms", DefaultTtlMs),
                   retries |-> Get(data, "retries", 0),
                   max_retries |-> Get(data, "max_retries", DefaultMaxRetries),
                   payload |-> data.payload]
         IN IF ValidateP2P(e) THEN <<e>> ELSE <<>>

\* every body taken for an envelope, the missing fields defaulted
ParseHierLenient(data, fresh) ==
    <<[envelope_version |-> "1.1", message_id |-> Get(data, "message_id", fresh),
       conversation_id |-> Get(data, "conversation_id", 0),
       traceparent |-> new_traceparent(fresh),
       sender |-> Get(data, "sender", "?"), target |-> Get(data, "target", "?"),
       ttl_ms |-> DefaultTtlMs, retries |-> 0, max_retries |-> DefaultMaxRetries,
       created_at |-> <<"datetime", 0>>,
       payload |-> Get(data, "payload", <<>>)]>>

ParseHier(data, fresh) ==
    IF ~Decodes(data) THEN <<>>
    ELSE IF ~(RequiredKeys("hier") \subseteq DOMAIN data) THEN <<>>
    ELSE LET e == [envelope_version |-> Get(data, "envelope_version", "1.1"),
                   message_id |-> Get(data, "message_id", fresh),
                   conversation_id |-> Get(data, "conversation_id", 0),
                   traceparent |-> Get(data, "traceparent", new_traceparent(fresh)),
                   sender |-> data.sender,
                   target |-> data.target,
                   ttl_ms |-> Get(data, "ttl_ms", DefaultTtlMs),
                   retries |-> Get(data, "retries", 0),
                   max_retries |-> Get(data, "max_retries", DefaultMaxRetries),
                   created_at |-> <<"datetime", Get(data, "created_at", <<"iso", 0>>)[2]>>,
                   payload |-> Get(data, "payload", <<>>)]
         IN IF ValidateHier(e) THEN <<e>> ELSE <<>>

A2AEnvelope(v, data, fresh) ==
    IF v = "p2p" THEN ParseP2P(data, fresh) ELSE ParseHier(data, fresh)

\* the retries value a child gets: the parent's unless overridden
\* a derivation that restarts the retry counter
ChildRetriesReset(self, retries) == IF retries = <<>> THEN 0 ELSE retries[1]

ChildRetries(self, retries) == IF retries = <<>> THEN self.retries ELSE retries[1]

\* a derivation that takes a new conversation id instead of its parent's
childP2PNewConversation(self, sender, target, payload, retries, fresh) ==
    <<[envelope_version |-> "1.0", message_id |-> fresh,
       conversation_id |-> self.conversation_id + Len(fresh),
       traceparent |-> child_traceparent(self.traceparent, fresh),
       sender |-> sender, target |-> target, ttl_ms |-> self.ttl_ms,
       retries |-> ChildRetries(self, retries), max_retries |-> self.max_retries,
       payload |-> payload]>>

\* A2AEnvelope.child(...): <<envelope>>, or <<>> on a ValidationError.
\* `retries` is <<>> (no override) or <<n>>.
childP2P(self, sender, target, payload, retries, fresh) ==
    LET e == [envelope_version |-> "1.0",
              message_id |-> fresh,
              conversation_id |-> self.conversation_id,
              traceparent |-> child_traceparent(self.traceparent, fresh),
              sender |-> sender,
              target |-> target,
              ttl_ms |-> self.ttl_ms,
              retries |-> ChildRetries(self, retries),
              max_retries |-> self.max_retries,
              payload |-> payload]
    IN IF ValidateP2P(e) THEN <<e>> ELSE <<>>

\* keep_span: reuse the parent's traceparent
childHierSpan(self, sender, target, payload, retries, keep_span, fresh) ==
    LET e == [envelope_version |-> "1.1",
              message_id |-> fresh,
              conversation_id |-> self.conversation_id,
              traceparent |-> IF keep_span THEN self.traceparent
                              ELSE child_traceparentHier(self.traceparent, fresh),
              sender |-> sender,
              target |-> target,
              ttl_ms |-> self.ttl_ms,
              retries |-> ChildRetries(self, retries),
              max_retries |-> self.max_retries,
              created_at |-> <<"datetime", 0>>,
              payload |-> payload]
    IN IF ValidateHier(e) THEN <<e>> ELSE <<>>

\* every caller in the services leaves keep_span at its default
childHier(self, sender, target, payload, retries, fresh) ==
    childHierSpan(self, sender, target, payload, retries, FALSE, fresh)

child(v, self, sender, target, payload, retries, fresh) ==
    IF v = "p2p" THEN childP2P(self, sender, target, payload, retries, fresh)
    ELSE childHier(self, sender, target, payload, retries, fresh)

\* json.dumps(env.model_dump()): model_dump() keeps a datetime a datetime, and
\* json.dumps raises TypeError on one.  <<wire dict>>, or <<>> on the TypeError.
JsonDumpsModelDump(e) ==
    IF "created_at" \in DOMAIN e /\ IsDatetime(e.created_at) THEN <<>> ELSE <<e>>

\* env.model_dump_json(): a datetime is written as an ISO string
ModelDumpJson(e) ==
    IF "created_at" \in DOMAIN e
    THEN <<[e EXCEPT !.created_at = <<"iso", @[2]>>]>>
    ELSE <<e>>

Msg(subject, data) == [subject |-> subject, data |-> data]

\* nc.publish(subject, bytes) of the result of a serialisation, which may have raised
Publish(subject, dumped) ==
    IF dumped = <<>> THEN <<>> ELSE <<Msg(subject, dumped[1])>>

----------------------------------------------------------------------------
(* Lineage, read off the message ids *)

\* the branch an envelope belongs to: the root in the P2P pipeline, the Section
\* editor's child (root, topic, section) in the hierarchical one
BranchLen(v) == IF v = "p2p" THEN 1 ELSE 3
HasBranch(v, mid) == Len(mid) >= BranchLen(v)
BranchOf(v, mid) == SubSeq(mid, 1, BranchLen(v))

----------------------------------------------------------------------------
(* Completion service: what one call can do *)

\* one reply to the Verifier's scoring request
\*   disabled  : no client was configured (P2P, USE_OPENAI off)
\*   raise     : the call raised
\*   none      : the reply has no content (None)
\*   empty     : the content is the empty string
\*   nonjson   : the content is not JSON
\*   nonobject : the content is JSON but not an object
\*   noscore   : a JSON object without a "score" key and without feedback
\*   badscore  : a JSON object whose score is not a number
\*   num       : a JSON object with a numeric score (val, in tenths) and feedback
ScoreReplyKinds(v) ==
    {"raise", "none", "empty", "nonjson", "nonobject", "noscore", "badscore"}
        \cup (IF v = "p2p" THEN {"disabled"} ELSE {})

ScoreReplies(v, nums) ==
    {[kind |-> k, val |-> 0] : k \in ScoreReplyKinds(v)}
        \cup {[kind |-> "num", val |-> x] : x \in nums}

\* the numeric scores the completion service returns in the two specifications
NumsSmall == {40, 90, 150}
NumsFull == {20, 30, 40, 50, 90, 150}

\* texts the completion service writes, by the markers they contain
LlmMarks == {{}, {"Key points:", "Sources:", "concise", "Long"}}

\* one reply to a drafting request
DraftReplies(v) ==
    {[kind |-> k, marks |-> {}] :
        k \in {"raise", "none", "empty"} \cup (IF v = "p2p" THEN {"disabled"} ELSE {})}
        \cup {[kind |-> "text", marks |-> m] : m \in LlmMarks}

\* the replies to the attempts of one retried call: the first n-1 are f, the rest r
AttemptSeqs(replies, failing) ==
    {[i \in 1..StopAfterAttempt |-> IF i < n THEN f ELSE r] :
        n \in 1..StopAfterAttempt, f \in failing, r \in replies}

----------------------------------------------------------------------------
(* Scoring *)

\* the score taken as the model returned it
ClampNone(score) == score

\* max(1.0, min(10.0, score))
Clamp(score) == Max(ScoreFloor, Min(ScoreCeil, score))

\* the same for score = NaN: min(10.0, nan) keeps its first argument, every
\* comparison with nan being false
ClampNaN == Max(ScoreFloor, ScoreCeil)

Scored(score, fb) == <<[score |-> score, fb |-> fb]>>

\* P2P heuristic_score(text)
heuristic_scoreP2P(text) ==
    LET score == HeuristicBase
                 + (IF "Key points:" \in text.marks THEN 6 ELSE 0)
                 + (IF "Sources:" \in text.marks THEN 4 ELSE 0)
                 + (IF "concise" \in text.marks THEN 3 ELSE 0)
                 + (IF "Long" \in text.marks THEN 2 ELSE 0)
        fb == IF "Revision applied:" \notin text.marks \/ "Sources:" \notin text.marks
              THEN "heuristic advice" ELSE "Looks good."
    IN Scored(Min(score, ScoreCeil), fb)

\* hierarchical heuristic_score(text); "Key point" also occurs in "Key points:"
heuristic_scoreHier(text) ==
    LET score == HeuristicBase
                 + (IF text.marks \cap {"Key point", "Key points:", "bullet"} # {}
                    THEN 5 ELSE 0)
                 + (IF "Takeaway" \in text.marks THEN 3 ELSE 0)
                 + (IF "Long" \in text.marks THEN 4 ELSE 0)
        fb == IF "Sources:" \notin text.marks THEN "heuristic advice" ELSE "Looks good."
    IN Scored(Min(score, ScoreCeil), fb)

\* P2P score_with_llm: every failure falls back to the heuristic
score_with_llmP2P(draft, reply) ==
    CASE reply.kind = "disabled" -> heuristic_scoreP2P(draft)
      [] reply.kind = "raise" -> heuristic_scoreP2P(draft)
      [] reply.kind \in {"none", "empty"} -> heuristic_scoreP2P(draft)
      [] reply.kind = "nonjson" -> heuristic_scoreP2P(draft)
      [] reply.kind = "nonobject" -> heuristic_scoreP2P(draft)
      [] reply.kind = "badscore" -> heuristic_scoreP2P(draft)
      [] reply.kind = "noscore" -> Scored(Clamp(0), "default advice")
      [] reply.kind = "nan" -> Scored(ClampNaN, "llm advice")
      [] OTHER -> Scored(Clamp(reply.val), "llm advice")

\* one attempt of the hierarchical score_with_llm: <<>> when it raises
score_attemptHier(draft, reply) ==
    CASE reply.kind = "raise" -> <<>>
      [] reply.kind = "none" -> <<>>
      [] reply.kind \in {"empty", "nonjson", "nonobject", "badscore"} ->
            heuristic_scoreHier(draft)
      [] reply.kind = "noscore" -> Scored(Clamp(0), "default advice")
      [] reply.kind = "nan" -> Scored(ClampNaN, "llm advice")
      [] OTHER -> Scored(Clamp(reply.val), "llm advice")

\* tenacity @retry(stop=stop_after_attempt(3)): <<>> is the RetryError
RECURSIVE score_with_llmHier(_, _, _)
score_with_llmHier(draft, replies, attempt) ==
    IF attempt > StopAfterAttempt THEN <<>>
    ELSE LET r == score_attemptHier(draft, replies[attempt])
         IN IF r = <<>> THEN score_with_llmHier(draft, replies, attempt + 1) ELSE r

\* the score the Verifier gets: <<[score, fb]>>, or <<>> when scoring raised
score_with_llm(v, draft, replies) ==
    IF v = "p2p" THEN score_with_llmP2P(draft, replies[1])
    ELSE score_with_llmHier(draft, replies, 1)

----------------------------------------------------------------------------
(* Handler results *)

\* what one handler invocation did: the envelopes it published, in order, and
\* for the Verifier the score it computed and the transition it chose
Result(status, outs, scored, decision) ==
    [status |-> status, outs |-> outs, scored |-> scored, decision |-> decision]

\* the message was dropped: the handler logged and returned without publishing
Dropped(scored, decision) == Result("dropped", <<>>, scored, decision)

Published(outs, scored, decision) ==
    IF outs = <<>> THEN Dropped(scored, decision)
    ELSE Result("ok", outs, scored, decision)

\* every envelope derived while handling `mid` gets the same id
ChildIdCollides(mid, i) == Append(mid, 1)

\* the id of the i-th envelope derived while handling the envelope `mid`
ChildId(mid, i) == Append(mid, i)

----------------------------------------------------------------------------
(* P2P Writer: writer_agent.py *)

draft_stub(task, notes, sources, feedback, fresh) ==
    [id |-> fresh,
     marks |-> (IF notes # "" THEN {"Key points:"} ELSE {})
               \cup (IF feedback # "" THEN {"Revision applied:"} ELSE {})
               \cup (IF sources # <<>> THEN {"Sources:"} ELSE {})]

generate_draft_async(task, notes, sources, feedback, reply, fresh) ==
    IF reply.kind \in {"disabled", "raise", "none", "empty"}
    THEN draft_stub(task, notes, sources, feedback, fresh)
    ELSE [id |-> fresh, marks |-> reply.marks]

WriterMessageHandler(data, reply) ==
    LET parsed == ParseP2P(data, <<>>)
    IN IF parsed = <<>> THEN Dropped(<<>>, "")
       ELSE
         LET env == parsed[1]
             payload == env.payload
             task == Get(payload, "task", "")
             notes == Get(payload, "research_notes", "")
             sources == Get(payload, "sources", <<>>)
             feedback == Get(payload, "feedback", "")
             fresh == ChildId(env.message_id, 1)
             draft == generate_draft_async(task, notes, sources, feedback, reply, fresh)
             out == childP2P(env, "writer@v1", "verifier@v1",
                             [role |-> "writer", task |-> task,
                              draft |-> draft, sources |-> sources],
                             <<>>, fresh)
         IN IF out = <<>> THEN Dropped(<<>>, "")
            ELSE Published(Publish(VERIFY_IN_SUBJECT, JsonDumpsModelDump(out[1])),
                           <<>>, "")

----------------------------------------------------------------------------
(* Hierarchical Writer: writer_service.py, llm_openai.py *)

\* one attempt of _complete: <<>> when it raises (the call fails, or the reply
\* has no content and .strip() raises)
complete_attempt(reply, fresh) ==
    CASE reply.kind \in {"raise", "none"} -> <<>>
      [] reply.kind = "empty" -> <<EmptyText>>
      [] OTHER -> <<[id |-> fresh, marks |-> reply.marks]>>

\* @retry(stop=stop_after_attempt(3)) around _complete: <<>> is the RetryError
RECURSIVE complete(_, _, _)
complete(replies, attempt, fresh) ==
    IF attempt > StopAfterAttempt THEN <<>>
    ELSE LET r == complete_attempt(replies[attempt], fresh)
         IN IF r = <<>> THEN complete(replies, attempt + 1, fresh) ELSE r

WriterHandle(data, replies) ==
    LET parsed == ParseHier(data, <<>>)
    IN IF parsed = <<>> THEN Dropped(<<>>, "")
       ELSE
         LET env == parsed[1]
             p == env.payload
             retries == env.retries
             topic == Get(p, "topic", "Untitled")
             section == Get(p, "section", "Section")
             sources == Get(p, "sources", <<>>)
             max_retries == Get(p, "max_retries", DefaultPayloadMaxRetries)
             fresh == ChildId(env.message_id, 1)
             draft == complete(replies, 1, fresh)
         IN IF draft = <<>> THEN Dropped(<<>>, "")
            ELSE
              LET out == childHier(env, "writer@v1", "verifier@v1",
                                   [role |-> "writer",
                                    task |-> Get(p, "task", ""),
                                    topic |-> topic,
                                    section |-> section,
                                    draft |-> draft[1],
                                    sources |-> sources,
                                    research_notes |-> Get(p, "research_notes", ""),
                                    max_retries |-> max_retries,
                                    retries |-> retries + 1],
                                   <<>>, fresh)
              IN IF out = <<>> THEN Dropped(<<>>, "")
                 ELSE Published(Publish(VERIFY_IN_SUBJECT, ModelDumpJson(out[1])),
                                <<>>, "")

----------------------------------------------------------------------------
(* Verifier: the quality gate *)

RevisionPayload(task, sources, fb) ==
    [role |-> "verifier", task |-> task, sources |-> sources, feedback |-> fb]

FinalPayload(draft, score, sources) ==
    [role |-> "verifier", draft |-> draft, score |-> score, sources |-> sources]

\* the transition rule: TRUE requests a revision, FALSE finalizes
\* the gate with the budget test off by one
NeedsRevisionOffByOne(score, retries, max_retries) ==
    score < MIN_ACCEPTABLE_SCORE /\ retries <= max_retries

\* the gate without the budget test
NeedsRevisionUnbounded(score, retries, max_retries) ==
    score < MIN_ACCEPTABLE_SCORE

NeedsRevision(score, retries, max_retries) ==
    score < MIN_ACCEPTABLE_SCORE /\ retries < max_retries

\* the retries override of the revision request
NextRetry(retries) == retries + 1

\* P2P reviewer_agent.py _message_handler
ReviewerMessageHandler(data, reply) ==
    LET parsed == ParseP2P(data, <<>>)
    IN IF parsed = <<>> THEN Dropped(<<>>, "")
       ELSE
         LET env == parsed[1]
             payload == env.payload
             draft == Get(payload, "draft", EmptyText)
             sources == Get(payload, "sources", <<>>)
             task == Get(payload, "task", "")
             scored == score_with_llmP2P(draft, reply)
             score == scored[1].score
             fb == scored[1].fb
             retries == env.retries
             max_retries == env.max_retries
             fresh == ChildId(env.message_id, 1)
         IN IF NeedsRevision(score, retries, max_retries)
            THEN LET out == childP2P(env, "verifier@v1", "writer@v1",
                                     RevisionPayload(task, sources, fb),
                                     <<NextRetry(retries)>>, fresh)
                 IN IF out = <<>> THEN Dropped(<<score>>, "revise")
                    ELSE Published(
                           Publish(WRITE_IN_SUBJECT, JsonDumpsModelDump(out[1])),
                           <<score>>, "revise")
            ELSE LET out == childP2P(env, "verifier@v1", "client@v1",
                                     FinalPayload(draft, score, sources),
                                     <<>>, fresh)
                 IN IF out = <<>> THEN Dropped(<<score>>, "final")
                    ELSE Published(
                           Publish(DONE_SUBJECT, JsonDumpsModelDump(out[1])),
                           <<score>>, "final")

\* hierarchical verify_service.py _handle: the revision request it derives
\* from the envelope it scored
RevisionChildHier(env, fb) ==
    childHier(env, "verifier@v1", "writer@v1",
              RevisionPayload(Get(env.payload, "task", ""),
                              Get(env.payload, "sources", <<>>), fb),
              <<NextRetry(env.retries)>>, ChildId(env.message_id, 1))

\* hierarchical verify_service.py _handle
VerifierHandle(data, replies) ==
    LET parsed == ParseHier(data, <<>>)
    IN IF parsed = <<>> THEN Dropped(<<>>, "")
       ELSE
         LET env == parsed[1]
             p == env.payload
             draft == Get(p, "draft", EmptyText)
             sources == Get(p, "sources", <<>>)
             task == Get(p, "task", "")
             retries == env.retries
             max_retries == env.max_retries
             scored == score_with_llmHier(draft, replies, 1)
             fresh == ChildId(env.message_id, 1)
         IN IF scored = <<>> THEN Dropped(<<>>, "")
            ELSE
              LET score == scored[1].score
                  fb == scored[1].fb
              IN IF NeedsRevision(score, retries, max_retries)
                 THEN LET out == RevisionChildHier(env, fb)
                      IN IF out = <<>> THEN Dropped(<<score>>, "revise")
                         ELSE Published(
                                Publish(WRITE_IN_SUBJECT, JsonDumpsModelDump(out[1])),
                                <<score>>, "revise")
                 ELSE LET out == childHier(env, "verifier@v1", "client@v1",
                                           FinalPayload(draft, score, sources),
                                           <<>>, fresh)
                      IN IF out = <<>> THEN Dropped(<<score>>, "final")
                         ELSE Published(
                                Publish(DONE_SUBJECT, ModelDumpJson(out[1])),
                                <<score>>, "final")

----------------------------------------------------------------------------
(* The bus and the bookkeeping of a handler step *)

SeqToSet(q) == {q[i] : i \in 1..Len(q)}

NoStep == [stage |-> "none", inp |-> <<>>, llm |-> <<>>, outs |-> <<>>, status |-> "",
           scored |-> <<>>, decision |-> "", derived |-> <<>>, override |-> <<>>]

\* the receive loop of a client that has not reached it
NoLoop == [pc |-> "none"]

\* llm: the completion service's replies to the attempts the handler made
Step(stage, m, llm, res) ==
    [stage |-> stage, inp |-> <<m>>, llm |-> llm, outs |-> res.outs,
     status |-> res.status, scored |-> res.scored, decision |-> res.decision,
     derived |-> <<>>, override |-> <<>>]

\* the Verifier's decisions on a branch so far
HistOf(b) == IF b \in DOMAIN hist THEN hist[b] ELSE <<>>

Record(b, entry) ==
    [x \in DOMAIN hist \cup {b} |-> IF x = b THEN Append(HistOf(b), entry) ELSE hist[x]]

\* the callback also takes every other message off the bus
DeliverClearsBus(stage, m, llm, res) ==
    /\ bus' = SeqToSet(res.outs)
    /\ last' = Step(stage, m, llm, res)
    /\ UNCHANGED <<variant, roots, rx>>

\* the subscription callback ran `stage` on message m with result res:
\* m is consumed, the publications are on the bus
Deliver(stage, m, llm, res) ==
    /\ Cardinality((bus \ {m}) \cup SeqToSet(res.outs)) <= MaxBus
    /\ bus' = (bus \ {m}) \cup SeqToSet(res.outs)
    /\ last' = Step(stage, m, llm, res)
    /\ UNCHANGED <<variant, roots, rx>>

VerifierEntry(m, res) ==
    [score |-> res.scored[1], decision |-> res.decision,
     published |-> res.status = "ok", retries |-> Get(m.data, "retries", 0),
     max_retries |-> Get(m.data, "max_retries", DefaultMaxRetries)]

\* obs: whether the run keeps the observations the loop properties read (the
\* replies of the completion service and the decision history of the branch)
DeliverVerifier(m, llm, res, obs) ==
    /\ Deliver("verifier", m, IF obs THEN llm ELSE <<>>, res)
    /\ hist' = IF res.scored = <<>> \/ ~obs THEN hist
               ELSE Record(BranchOf(variant, m.data.message_id), VerifierEntry(m, res))

----------------------------------------------------------------------------
(* Stage actions: one subscription callback on one delivered message *)

WriterP2P ==
    /\ variant = "p2p"
    /\ \E m \in bus :
        /\ m.subject = WRITE_IN_SUBJECT
        /\ \E reply \in DraftReplies("p2p") :
              Deliver("writer", m, <<>>, WriterMessageHandler(m.data, reply))
    /\ UNCHANGED hist

\* attempts: the reply sequences the completion service may give;
\* obs: whether the run keeps the replies for the properties that read them
WriterHierOn(attempts, obs) ==
    /\ variant = "hier"
    /\ \E m \in bus :
        /\ m.subject = WRITE_IN_SUBJECT
        /\ \E replies \in attempts :
              Deliver("writer", m, IF obs THEN replies ELSE <<>>,
                      WriterHandle(m.data, replies))
    /\ UNCHANGED hist

WriterHier ==
    WriterHierOn(AttemptSeqs(DraftReplies("hier"),
                             {r \in DraftReplies("hier") : r.kind = "raise"}), FALSE)

\* scores: the replies the completion service may give to a scoring request
ReviewerP2POn(scores, obs) ==
    /\ variant = "p2p"
    /\ \E m \in bus :
        /\ m.subject = VERIFY_IN_SUBJECT
        /\ \E reply \in scores :
              DeliverVerifier(m, <<reply>>, ReviewerMessageHandler(m.data, reply), obs)

ReviewerP2P(nums, obs) == ReviewerP2POn(ScoreReplies("p2p", nums), obs)

\* attempts: the reply sequences the completion service may give to the
\* attempts of one scoring call
VerifierHierAttempts(attempts, obs) ==
    /\ variant = "hier"
    /\ \E m \in bus :
        /\ m.subject = VERIFY_IN_SUBJECT
        /\ \E replies \in attempts :
              DeliverVerifier(m, replies, VerifierHandle(m.data, replies), obs)

VerifierHierOn(scores, obs) ==
    VerifierHierAttempts(AttemptSeqs(scores, {r \in scores : r.kind = "raise"}), obs)

VerifierHier(nums, obs) == VerifierHierOn(ScoreReplies("hier", nums), obs)

----------------------------------------------------------------------------
(* The Writer/Verifier loop on one envelope another publisher put on the   *)
(* writer subject                                                          *)

InboundP2P(retries, max_retries) ==
    [envelope_version |-> "1.0", message_id |-> <<0>>, conversation_id |-> 0,
     traceparent |-> new_traceparent(<<0>>),
     sender |-> "researcher@v1", target |-> "writer@v1",
     ttl_ms |-> DefaultTtlMs, retries |-> retries, max_retries |-> max_retries,
     payload |-> [role |-> "researcher", task |-> "task",
                  research_notes |-> "notes", sources |-> <<"url">>]]

InboundHier(retries, max_retries) ==
    [envelope_version |-> "1.1", message_id |-> <<0, 0, 0>>, conversation_id |-> 0,
     traceparent |-> new_traceparent(<<0>>),
     sender |-> "sectionEditor@v1", target |-> "writer@v1",
     ttl_ms |-> DefaultTtlMs, retries |-> retries, max_retries |-> max_retries,
     created_at |-> <<"iso", 0>>,
     payload |-> [role |-> "section", topic |-> "t1", section |-> "s1",
                  style |-> "neutral", sources |-> <<"url">>,
                  research_notes |-> "", task |-> "",
                  max_retries |-> DefaultPayloadMaxRetries]]

Inbound(v, retries, max_retries) ==
    IF v = "p2p" THEN InboundP2P(retries, max_retries)
    ELSE InboundHier(retries, max_retries)

\* one envelope is on the writer subject, nothing has been handled yet
OnWriteSubject(retries, max_retries) ==
    /\ bus = {Msg(WRITE_IN_SUBJECT, Inbound(variant, retries, max_retries))}
    /\ roots = <<>>
    /\ hist = [b \in {} |-> <<>>]
    /\ last = NoStep
    /\ rx = NoLoop

\* the envelope is one the pipeline produces: retries within the budget
InitOpen ==
    /\ variant \in Variants
    /\ \E mr \in 0..MaxRetryBudget : \E r \in 0..mr : OnWriteSubject(r, mr)

NextOpen ==
    \/ WriterP2P
    \/ WriterHier
    \/ ReviewerP2P(NumsFull, TRUE)
    \/ VerifierHier(NumsFull, TRUE)

SpecOpen == InitOpen /\ [][NextOpen]_vars

----------------------------------------------------------------------------
(* Derivation on its own: child() applied to an envelope on the bus with    *)
(* every retries override                                                   *)

\* any envelope the schema accepts, also with retries beyond max_retries
InitChild ==
    /\ variant \in Variants
    /\ \E r \in 0..(MaxRetryBudget + 1), mr \in 0..MaxRetryBudget :
          OnWriteSubject(r, mr)

Overrides == {<<>>} \cup {<<n>> : n \in 0..(MaxRetryBudget + 2)}

DeriveChild ==
    /\ \E m \in bus, ov \in Overrides :
        LET parent == A2AEnvelope(variant, m.data, <<>>)
        IN /\ parent # <<>>
           /\ last' = [NoStep EXCEPT
                         !.stage = "derive", !.inp = <<m>>, !.override = ov,
                         !.derived = child(variant, parent[1], "verifier@v1",
                                           "writer@v1", [role |-> "verifier"], ov,
                                           ChildId(m.data.message_id, 1))]
    /\ UNCHANGED <<variant, bus, roots, hist, rx>>

NextChild ==
    \/ DeriveChild
    \/ WriterP2P
    \/ WriterHier
    \/ ReviewerP2P(NumsSmall, TRUE)
    \/ VerifierHier(NumsSmall, TRUE)

SpecChild == InitChild /\ [][NextChild]_vars

----------------------------------------------------------------------------
(* P2P client and Retriever: send_task.py, retriever_agent.py *)

\* new_root_envelope(task, to_role="researcher", ...): uuid4() is `fresh`
new_root_envelopeP2P(task, conversation_id, max_retries, fresh) ==
    ParseP2P([message_id |-> fresh,
              conversation_id |-> IF conversation_id = <<>> THEN fresh[1]
                                  ELSE conversation_id[1],
              traceparent |-> new_traceparent(fresh),
              sender |-> "client@v1", target |-> "researcher@v1",
              max_retries |-> max_retries,
              payload |-> [role |-> "client", task |-> task]], fresh)

\* what the search gives the Retriever
SearchOutcomes == {"noconfig", "raise", "empty", "results"}

\* summarize(results_list): notes and the urls of the results; an empty result
\* list is replaced by one built-in result without a url
summarize(outcome) ==
    IF outcome = "results" THEN [notes |-> "notes", sources |-> <<"url">>]
    ELSE [notes |-> "overview", sources |-> <<>>]

RetrieverMessageHandler(data, outcome) ==
    LET parsed == ParseP2P(data, <<>>)
    IN IF parsed = <<>> THEN Dropped(<<>>, "")
       ELSE
         LET env == parsed[1]
             task == Get(env.payload, "task", "")
             fresh == ChildId(env.message_id, 1)
         IN IF outcome \in {"noconfig", "raise"} THEN Dropped(<<>>, "")
            ELSE
              LET sm == summarize(outcome)
                  out == childP2P(env, "researcher@v1", "writer@v1",
                                  [role |-> "researcher", task |-> task,
                                   research_notes |-> sm.notes,
                                   sources |-> sm.sources],
                                  <<>>, fresh)
              IN IF out = <<>> THEN Dropped(<<>>, "")
                 ELSE Published(Publish(WRITE_IN_SUBJECT, JsonDumpsModelDump(out[1])),
                                <<>>, "")

----------------------------------------------------------------------------
(* Hierarchical client, Chief Editor and Section Editor *)

\* client.py make_envelope: a plain dict, max_retries defaults to
\* MakeEnvelopeMaxRetries when the caller does not pass it (<<>>)
make_envelope(sender, target, payload, conversation_id, retries, max_retries, fresh) ==
    [message_id |-> fresh,
     conversation_id |-> IF conversation_id = <<>> THEN fresh[1] ELSE conversation_id[1],
     sender |-> sender,
     target |-> target,
     payload |-> payload,
     retries |-> retries,
     max_retries |-> IF max_retries = <<>> THEN MakeEnvelopeMaxRetries ELSE max_retries[1]]

\* the seed envelope run_client builds: the retry budget goes into the payload
SeedEnvelope(max_topics, max_sections, max_retries, fresh) ==
    make_envelope("client@v1", "chief@v1",
                  [area |-> "area", max_topics |-> max_topics,
                   max_sections |-> max_sections, style |-> "neutral",
                   sources |-> <<"url">>, research_notes |-> "",
                   max_retries |-> max_retries],
                  <<>>, 0, <<>>, fresh)

\* one reply to an outline request: the number of non-blank lines it has
LineReplies ==
    {[kind |-> k, lines |-> 0] : k \in {"raise", "none", "empty"}}
        \cup {[kind |-> "text", lines |-> n] : n \in 1..(MaxFanOut + 1)}

complete_lines_attempt(reply) ==
    CASE reply.kind \in {"raise", "none"} -> <<>>
      [] OTHER -> <<reply.lines>>

\* the retry goes on for as long as the service has replies
RECURSIVE complete_lines_unbounded(_, _)
complete_lines_unbounded(replies, attempt) ==
    IF attempt > Len(replies) THEN <<>>
    ELSE LET r == complete_lines_attempt(replies[attempt])
         IN IF r = <<>> THEN complete_lines_unbounded(replies, attempt + 1) ELSE r

\* @retry(stop=stop_after_attempt(3)) around _complete: <<>> is the RetryError
RECURSIVE complete_lines(_, _)
complete_lines(replies, attempt) ==
    IF attempt > StopAfterAttempt THEN <<>>
    ELSE LET r == complete_lines_attempt(replies[attempt])
         IN IF r = <<>> THEN complete_lines(replies, attempt + 1) ELSE r

\* the length of lst[:k] for a list of n items
SliceLen(n, k) == IF k >= 0 THEN Min(n, k) ELSE Max(n + k, 0)

\* list_topics: the number of topics, <<>> when _complete gives up
list_topics(replies, max_topics) ==
    LET text == complete_lines(replies, 1)
    IN IF text = <<>> THEN <<>> ELSE <<SliceLen(text[1], max_topics)>>

\* break_into_sections: the number of sections, <<>> when _complete gives up
break_into_sections(replies, max_sections) ==
    LET text == complete_lines(replies, 1)
    IN IF text = <<>> THEN <<>> ELSE <<SliceLen(text[1], max_sections)>>

\* chief_editor_service.py _handle
ChiefHandle(data, replies) ==
    LET parsed == ParseHier(data, <<>>)
    IN IF parsed = <<>> THEN Dropped(<<>>, "")
       ELSE
         LET env == parsed[1]
             payload == env.payload
             max_topics == Get(payload, "max_topics", 5)
             max_sections == Get(payload, "max_sections", 6)
             style == Get(payload, "style", "neutral")
             sources == Get(payload, "sources", <<>>)
             topics == list_topics(replies, max_topics)
         IN IF topics = <<>> THEN Dropped(<<>>, "")
            ELSE Result("ok",
                   [t \in 1..topics[1] |->
                      Msg(SECTION_EDITOR_IN_SUBJECT,
                          ModelDumpJson(
                            childHier(env, "chiefEditor@v1", "section@v1",
                                      [role |-> "chief", topic |-> t,
                                       max_sections |-> max_sections,
                                       style |-> style, sources |-> sources,
                                       max_retries |-> Get(payload, "max_retries",
                                                           DefaultPayloadMaxRetries)],
                                      <<>>, ChildId(env.message_id, t))[1])[1])],
                   <<>>, "")

\* section_editor_service.py _handle
SectionHandle(data, replies) ==
    LET parsed == ParseHier(data, <<>>)
    IN IF parsed = <<>> THEN Dropped(<<>>, "")
       ELSE
         LET env == parsed[1]
             p == env.payload
             topic == Get(p, "topic", "Untitled")
             max_sections == Get(p, "max_sections", 6)
             style == Get(p, "style", "neutral")
             sources == Get(p, "sources", <<>>)
             max_retries == Get(p, "max_retries", DefaultPayloadMaxRetries)
             sections == break_into_sections(replies, max_sections)
         IN IF sections = <<>> THEN Dropped(<<>>, "")
            ELSE Result("ok",
                   [sec \in 1..sections[1] |->
                      Msg(WRITE_IN_SUBJECT,
                          ModelDumpJson(
                            childHier(env, "sectionEditor@v1", "writer@v1",
                                      [role |-> "section", topic |-> topic,
                                       section |-> sec, style |-> style,
                                       sources |-> sources,
                                       research_notes |-> Get(p, "research_notes", ""),
                                       task |-> Get(p, "task", ""),
                                       max_retries |-> max_retries],
                                      <<>>, ChildId(env.message_id, sec))[1])[1])],
                   <<>>, "")

----------------------------------------------------------------------------
(* The pipelines from the clients *)

\* a client run: the arguments it was started with, whether its subscription
\* to the done subject is active, and the results it collected
ClientRun(cid, max_retries, subscribed) ==
    [cid |-> cid, max_retries |-> max_retries, subscribed |-> subscribed,
     received |-> 0]

\* send_task.py main up to the flush: builds the root envelope and publishes
\* it; the subscription to the done subject comes afterwards
ClientP2P ==
    /\ variant = "p2p"
    /\ Len(roots) < MaxRoots
    /\ Cardinality(bus) < MaxBus
    /\ LET fresh == <<Len(roots) + 1>>
           env == new_root_envelopeP2P("task", <<>>, SendTaskMaxRetries, fresh)
       IN /\ bus' = bus \cup SeqToSet(Publish(RESEARCH_IN_SUBJECT,
                                              JsonDumpsModelDump(env[1])))
          /\ roots' = Append(roots, ClientRun(env[1].conversation_id,
                                              SendTaskMaxRetries, FALSE))
          /\ last' = [NoStep EXCEPT !.stage = "client"]
    /\ UNCHANGED <<variant, hist, rx>>

\* client.py run_client, streamlit_client.py run_client_once: builds the seed
\* envelope, subscribes to the done subject, then publishes the envelope
ClientHier ==
    /\ variant = "hier"
    /\ Len(roots) < MaxRoots
    /\ Cardinality(bus) < MaxBus
    /\ \E max_retries \in 0..MaxRetryBudget :
        LET fresh == <<Len(roots) + 1>>
            envelope == SeedEnvelope(MaxFanOut, MaxFanOut, max_retries, fresh)
        IN /\ bus' = bus \cup {Msg(CHIEF_EDITOR_IN_SUBJECT, envelope)}
           /\ roots' = Append(roots, ClientRun(envelope.conversation_id,
                                               max_retries, TRUE))
           /\ last' = [NoStep EXCEPT !.stage = "client"]
    /\ UNCHANGED <<variant, hist, rx>>

\* send_task.py main after the flush: nc.subscribe(DONE_SUBJECT)
SubscribeP2P ==
    /\ variant = "p2p"
    /\ \E i \in 1..Len(roots) :
        /\ ~roots[i].subscribed
        /\ roots' = [roots EXCEPT ![i].subscribed = TRUE]
    /\ last' = [NoStep EXCEPT !.stage = "subscribe"]
    /\ UNCHANGED <<variant, bus, hist, rx>>

Retriever ==
    /\ variant = "p2p"
    /\ \E m \in bus :
        /\ m.subject = RESEARCH_IN_SUBJECT
        /\ \E outcome \in SearchOutcomes :
              Deliver("retriever", m, <<>>, RetrieverMessageHandler(m.data, outcome))
    /\ UNCHANGED hist

LineAttempts == AttemptSeqs(LineReplies, {r \in LineReplies : r.kind = "raise"})

ChiefOn(attempts) ==
    /\ variant = "hier"
    /\ \E m \in bus :
        /\ m.subject = CHIEF_EDITOR_IN_SUBJECT
        /\ \E replies \in attempts :
              Deliver("chief", m, replies, ChiefHandle(m.data, replies))
    /\ UNCHANGED hist

Chief == ChiefOn(LineAttempts)

SectionOn(attempts) ==
    /\ variant = "hier"
    /\ \E m \in bus :
        /\ m.subject = SECTION_EDITOR_IN_SUBJECT
        /\ \E replies \in attempts :
              Deliver("section", m, replies, SectionHandle(m.data, replies))
    /\ UNCHANGED hist

Section == SectionOn(LineAttempts)

\* the server routes a FINAL to the subscriptions on the done subject that are
\* active at that moment: the client whose conversation it belongs to counts
\* it, the others skip it, a client that has not subscribed never sees it
ClientReceive ==
    /\ \E m \in bus :
        /\ m.subject = DONE_SUBJECT
        /\ bus' = bus \ {m}
        /\ roots' = [i \in 1..Len(roots) |->
                        IF /\ roots[i].subscribed
                           /\ Get(m.data, "conversation_id", <<>>) = roots[i].cid
                        THEN [roots[i] EXCEPT !.received = @ + 1]
                        ELSE roots[i]]
        /\ last' = [NoStep EXCEPT !.stage = "receive", !.inp = <<m>>]
    /\ UNCHANGED <<variant, hist, rx>>

Init ==
    /\ variant \in Variants
    /\ bus = {}
    /\ roots = <<>>
    /\ hist = [b \in {} |-> <<>>]
    /\ last = NoStep
    /\ rx = NoLoop

Next ==
    \/ ClientP2P
    \/ SubscribeP2P
    \/ Retriever
    \/ WriterP2P
    \/ ReviewerP2P(NumsSmall, FALSE)
    \/ ClientHier
    \/ Chief
    \/ Section
    \/ WriterHier
    \/ VerifierHier(NumsSmall, FALSE)
    \/ ClientReceive

Spec == Init /\ [][Next]_vars

----------------------------------------------------------------------------
(* Vocabulary of the properties *)

LastMsg == last.inp[1]

\* the envelope the last handler invocation parsed
LastEnv == A2AEnvelope(variant, LastMsg.data, <<>>)[1]

\* the last step was `stage` handling an envelope that passes validation
HandledWellFormed(stage) ==
    last.stage = stage /\ A2AEnvelope(variant, LastMsg.data, <<>>) # <<>>

Finals == {m \in bus : m.subject = DONE_SUBJECT}

InLoop == {m \in bus : m.subject \in {WRITE_IN_SUBJECT, VERIFY_IN_SUBJECT}}

BranchMsgs(b) ==
    {m \in bus : /\ HasBranch(variant, m.data.message_id)
                 /\ BranchOf(variant, m.data.message_id) = b}

Scores(h) == [i \in 1..Len(h) |-> h[i].score]

AllBelow(h) == \A i \in 1..Len(h) : h[i].score < MIN_ACCEPTABLE_SCORE

\* the envelope a message was derived from has the id without its last index
ParentId(mid) == SubSeq(mid, 1, Len(mid) - 1)

\* the reply that ended the handler's calls to the completion service
LastReply == last.llm[Len(last.llm)]

----------------------------------------------------------------------------
(* C1 *)

\* C1: for every well-formed envelope the Verifier handles and scores, with s the
\* clamped score, it publishes exactly one envelope: a revision request on the writer
\* subject with retries + 1, feedback and no draft when s is below the threshold
\* and retries < max_retries, otherwise a FINAL on the done subject with the
\* same retries and draft, score and sources.
C1_QualityGate ==
    (HandledWellFormed("verifier") /\ last.scored # <<>>) =>
        /\ Len(last.outs) = 1
        /\ LET e == LastEnv
               s == last.scored[1]
               o == last.outs[1]
           IN /\ ScoreFloor <= s /\ s <= ScoreCeil
              /\ IF s < MIN_ACCEPTABLE_SCORE /\ e.retries < e.max_retries
                 THEN /\ o.subject = WRITE_IN_SUBJECT
                      /\ o.data.retries = e.retries + 1
                      /\ "feedback" \in DOMAIN o.data.payload
                      /\ "draft" \notin DOMAIN o.data.payload
                 ELSE /\ o.subject = DONE_SUBJECT
                      /\ o.data.retries = e.retries
                      /\ {"draft", "score", "sources"} \subseteq DOMAIN o.data.payload

\* the same gate, of the P2P Verifier alone
C1_QualityGateP2P == variant = "p2p" => C1_QualityGate

----------------------------------------------------------------------------
(* C2 *)

----------------------------------------------------------------------------
(* C3 *)

\* C3: on a branch that starts with retries = 0, the i-th scoring (i = 1, 2, ..)
\* sees retries = i - 1; it publishes a revision request while the score is
\* below the threshold and retries < max_retries, and at the first score that
\* is acceptable (or at exhaustion) it publishes the one FINAL, carrying that
\* score and retries, after which nothing more is scored.
C3_StopsAtFirstAcceptable ==
    \A b \in DOMAIN hist :
        LET h == hist[b]
        IN h[1].retries = 0 =>
             \A i \in 1..Len(h) :
                /\ h[i].retries = i - 1
                /\ h[i].published
                /\ h[i].decision =
                      IF h[i].score < MIN_ACCEPTABLE_SCORE /\ i - 1 < h[i].max_retries
                      THEN "revise" ELSE "final"
                /\ h[i].decision = "final" =>
                      /\ i = Len(h)
                      /\ \E m \in BranchMsgs(b) :
                            /\ m.subject = DONE_SUBJECT
                            /\ m.data.payload.score = h[i].score
                            /\ m.data.retries = i - 1

\* the same, of the P2P pipeline alone
C3_StopsAtFirstAcceptableP2P == variant = "p2p" => C3_StopsAtFirstAcceptable

----------------------------------------------------------------------------
(* C4 *)

\* the Writer invocations behind a FINAL: two hops per loop after the branch id
WriterCalls(m) == (Len(m.data.message_id) - BranchLen(variant)) \div 2

\* C4: a well-formed envelope on the writer subject cannot stall: whenever no
\* envelope of the branch is left on the writer or verifier subject, a FINAL is
\* on the done subject, and it was reached with at most max_retries + 1 Writer
\* invocations.  (A Writer whose completion call fails on every attempt drops
\* the envelope by the documented policy; the property is stated of the
\* branches whose loop was not ended by the Writer.)
C4_NoStall ==
    /\ (InLoop = {} /\ last.stage # "writer") => Finals # {}
    /\ \A m \in Finals : WriterCalls(m) <= Max(m.data.max_retries, 0) + 1

\* the same, of the P2P pipeline alone
C4_NoStallP2P == variant = "p2p" => C4_NoStall

----------------------------------------------------------------------------
(* C5 *)

Stages == {"retriever", "chief", "section", "writer", "verifier"}

\* the client run an envelope descends from: the first index of its id
RootOf(m) == m.data.message_id[1]

\* C5: every envelope a stage publishes while handling an inbound envelope e
\* carries e.conversation_id; hence every envelope on the bus carries the
\* conversation_id of the client run it descends from, and, the runs having
\* distinct ids, never that of another conversation.
C5_ConversationInvariant ==
    /\ (last.stage \in Stages /\ A2AEnvelope(variant, LastMsg.data, <<>>) # <<>>) =>
          \A i \in 1..Len(last.outs) :
              last.outs[i].data.conversation_id = LastEnv.conversation_id
    /\ \A m \in bus :
          /\ RootOf(m) \in 1..Len(roots)
          /\ m.data.conversation_id = roots[RootOf(m)].cid
    /\ \A i, j \in 1..Len(roots) : i # j => roots[i].cid # roots[j].cid

\* two envelopes of different branches of one fan-out, past the Writer, with the
\* conversation_id of their root
C5_Witness ==
    \E m1, m2 \in bus :
        /\ m1.subject \in {VERIFY_IN_SUBJECT, DONE_SUBJECT}
        /\ m2.subject \in {VERIFY_IN_SUBJECT, DONE_SUBJECT}
        /\ BranchOf(variant, m1.data.message_id) # BranchOf(variant, m2.data.message_id)
        /\ m1.data.conversation_id = m2.data.conversation_id
        /\ m1.data.conversation_id = roots[RootOf(m1)].cid

----------------------------------------------------------------------------
(* C6 *)

\* C6: in the pipelines the clients start, every envelope on every subject
\* has 0 <= retries <= max_retries, and no handler publishes an envelope whose
\* retries exceeds its max_retries.
C6_RetriesWithinBudget ==
    /\ \A m \in bus :
          /\ 0 <= Get(m.data, "retries", 0)
          /\ Get(m.data, "retries", 0) <= Get(m.data, "max_retries", DefaultMaxRetries)
    /\ \A i \in 1..Len(last.outs) :
          last.outs[i].data.retries <= last.outs[i].data.max_retries

\* an exhausted branch: a FINAL whose retries reached a positive budget
C6_Witness ==
    \E m \in bus :
        /\ m.subject = DONE_SUBJECT
        /\ m.data.retries = m.data.max_retries
        /\ m.data.retries > 0

----------------------------------------------------------------------------
(* C8 *)

\* C8: every envelope published by the Retriever, Chief, Section editor and
\* Writer, and by the Verifier's FINAL transition, has the retries and the
\* max_retries of the envelope being handled; the Verifier's revision
\* transition publishes retries + 1 with max_retries unchanged.
C8_OnlyRevisionCounts ==
    (last.stage \in Stages /\ A2AEnvelope(variant, LastMsg.data, <<>>) # <<>>) =>
        \A i \in 1..Len(last.outs) :
            LET o == last.outs[i].data
                revision == last.stage = "verifier" /\ last.decision = "revise"
            IN /\ o.max_retries = LastEnv.max_retries
               /\ o.retries = IF revision THEN LastEnv.retries + 1 ELSE LastEnv.retries

\* the Writer answers a second revision request: its envelope keeps retries = 2
C8_Witness ==
    /\ last.stage = "writer"
    /\ Len(last.outs) = 1
    /\ LastEnv.retries = 2
    /\ last.outs[1].data.retries = 2
    /\ last.outs[1].data.max_retries = LastEnv.max_retries

----------------------------------------------------------------------------
(* C9 *)

\* C9: in the hierarchical pipeline every envelope waiting for the Verifier
\* has max_retries equal to the retry budget its client run was started with.
C9_ClientBudgetApplied ==
    variant = "hier" =>
        \A m \in bus :
            m.subject = VERIFY_IN_SUBJECT =>
                Get(m.data, "max_retries", DefaultMaxRetries)
                    = roots[RootOf(m)].max_retries

----------------------------------------------------------------------------
(* C7 *)

\* C7: deriving a child with a retries override greater than max_retries fails
\* and yields no envelope, and a stage handler drops an inbound message whose
\* retries exceeds its max_retries.
C7_RetriesValidated ==
    /\ (/\ last.stage = "derive"
        /\ last.override # <<>>
        /\ last.override[1] > LastEnv.max_retries) => last.derived = <<>>
    /\ (/\ last.stage \in {"writer", "verifier"}
        /\ LastMsg.data.retries > LastMsg.data.max_retries) =>
            (last.status = "dropped" /\ last.outs = <<>>)

----------------------------------------------------------------------------
(* C10 *)

\* the score the heuristic gives the draft of the envelope just handled
HeuristicOfLast ==
    LET draft == Get(LastEnv.payload, "draft", EmptyText)
    IN IF variant = "p2p" THEN heuristic_scoreP2P(draft)[1].score
       ELSE heuristic_scoreHier(draft)[1].score

\* C10: when the completion-service call raises on every attempt, returns empty
\* content or returns non-JSON output, the Verifier scores the draft with the
\* heuristic and still publishes exactly one envelope for the inbound one.
C10_HeuristicFallback ==
    (/\ HandledWellFormed("verifier")
     /\ LastReply.kind \in {"raise", "empty", "nonjson"}) =>
        /\ last.scored = <<HeuristicOfLast>>
        /\ Len(last.outs) = 1

\* the same, of the P2P pipeline alone
C10_HeuristicFallbackP2P == variant = "p2p" => C10_HeuristicFallback

----------------------------------------------------------------------------
(* C11 *)

\* the planning stages, the subject each publishes to and the payload key
\* that carries the item
Planners == {"chief", "section"}

NextSubject(stage) ==
    IF stage = "chief" THEN SECTION_EDITOR_IN_SUBJECT ELSE WRITE_IN_SUBJECT

ItemKey(stage) == IF stage = "chief" THEN "topic" ELSE "section"

\* what the delegate of the last planner step returned: <<n>> for a list of n
\* items, <<>> when it raised
DelegateItems ==
    IF last.stage = "chief"
    THEN list_topics(last.llm, Get(LastEnv.payload, "max_topics", 5))
    ELSE break_into_sections(last.llm, Get(LastEnv.payload, "max_sections", 6))

\* C11: a planner (Chief Editor, Section Editor) whose delegate returns a list
\* of n items publishes exactly n envelopes on the next subject, the i-th
\* carrying the i-th item, each with the conversation_id and the retries of
\* the envelope it handled and with pairwise distinct message_ids; when n = 0
\* it publishes nothing and the handler does not fail.
C11_PlannerFanOut ==
    \A stage \in Planners :
        (HandledWellFormed(stage) /\ DelegateItems # <<>>) =>
            /\ last.status = "ok"
            /\ Len(last.outs) = DelegateItems[1]
            /\ \A i \in 1..Len(last.outs) :
                  /\ last.outs[i].subject = NextSubject(stage)
                  /\ last.outs[i].data.payload[ItemKey(stage)] = i
                  /\ last.outs[i].data.conversation_id = LastEnv.conversation_id
                  /\ last.outs[i].data.retries = LastEnv.retries
            /\ \A i, j \in 1..Len(last.outs) :
                  i # j => last.outs[i].data.message_id # last.outs[j].data.message_id

\* the Section Editor fanned a topic out into MaxFanOut sections
C11_Witness ==
    /\ HandledWellFormed("section")
    /\ DelegateItems = <<MaxFanOut>>
    /\ Len(last.outs) = MaxFanOut

\* a planner whose delegate returned the empty list
C11_WitnessEmpty ==
    /\ HandledWellFormed("chief")
    /\ DelegateItems = <<0>>
    /\ last.outs = <<>>
    /\ last.status = "ok"

----------------------------------------------------------------------------
(* C12 *)

\* C12: every client subscribes to the done subject before it publishes its
\* root envelope: a client whose root envelope is out has an active
\* subscription, so no FINAL of its conversation is published or routed while
\* it has none.
C12_SubscribeBeforePublish ==
    /\ \A i \in 1..Len(roots) : roots[i].subscribed
    /\ \A m \in Finals : roots[RootOf(m)].subscribed
    /\ last.stage = "receive" => roots[RootOf(LastMsg)].subscribed

\* the same for the hierarchical clients (CLI and Streamlit) alone
C12_SubscribeBeforePublishHier ==
    variant = "hier" => C12_SubscribeBeforePublish

\* a hierarchical client received a FINAL of its conversation
C12_WitnessHier ==
    /\ variant = "hier"
    /\ last.stage = "receive"
    /\ roots[RootOf(LastMsg)].received > 0

\* the FINAL of a P2P conversation was routed while its client had no
\* subscription, and the client collected nothing
C12_FinalUnheard ==
    /\ variant = "p2p"
    /\ last.stage = "receive"
    /\ ~roots[RootOf(LastMsg)].subscribed
    /\ roots[RootOf(LastMsg)].received = 0

----------------------------------------------------------------------------
(* The receive loop of the aggregating client: client.py run_client and     *)
(* streamlit_client.py run_client_once.  The clock counts half seconds, so  *)
(* the 1.0 s poll of the done queue is PollTimeout = 2.                     *)

\* Config.idle_timeout_sec, Config.overall_timeout_sec, in half seconds
Timeouts ==
    {[idle_timeout_sec |-> 4, overall_timeout_sec |-> 20],
     [idle_timeout_sec |-> 10, overall_timeout_sec |-> 4]}

\* expected_results: Optional[int]
ExpectedResults == {<<>>} \cup {<<n>> : n \in 0..(MaxArrivals - 1)}

\* the messages the done subject delivers: conversation 1 is the client's
DoneMessages == [conversation_id : 1..2, message_id : 1..MaxMsgIds]

\* (time.monotonic() - since) > limit.  A reading that equals the limit on the
\* half-second grid may be just above it on the clock of the program, so both
\* outcomes are possible there.
Exceeds(elapsed, limit) ==
    IF elapsed > limit THEN {TRUE}
    ELSE IF elapsed = limit THEN {TRUE, FALSE}
    ELSE {FALSE}

\* the overall check is never taken
OverallNeverExceeds(r) == {FALSE}

\* if (time.monotonic() - start_ts) > cfg.overall_timeout_sec
OverallExceeds(r) == Exceeds(r.now - r.start_ts, r.cfg.overall_timeout_sec)

\* if (time.monotonic() - idle_start) > cfg.idle_timeout_sec
IdleExceeds(r) == Exceeds(r.now - r.idle_start, r.cfg.idle_timeout_sec)

\* the idle timer is left where it was
IdleStartKept(r) == r.idle_start

\* idle_start = time.monotonic() after an item was taken
IdleStartOnItem(r) == r.now

\* the limit is passed only by one more result
ReachedExpectedLate(expected_results, received) ==
    /\ expected_results # <<>>
    /\ expected_results[1] # 0
    /\ received > expected_results[1]

\* if expected_results and received >= expected_results: None and 0 are falsy
ReachedExpected(expected_results, received) ==
    /\ expected_results # <<>>
    /\ expected_results[1] # 0
    /\ received >= expected_results[1]

\* every message on the done subject is taken
EnqueuesAll(data, conversation_id) == TRUE

\* _done_cb: if data.get("conversation_id") == conversation_id
Enqueues(data, conversation_id) == data.conversation_id = conversation_id

\* run_client after the publish of the seed envelope: received = 0,
\* idle_start = start_ts = time.monotonic()
LoopStart(cfg, expected_results) ==
    [pc |-> "top", conversation_id |-> 1, cfg |-> cfg,
     expected_results |-> expected_results,
     now |-> 0, start_ts |-> 0, idle_start |-> 0, wait_from |-> 0,
     done_queue |-> <<>>, received |-> 0, reason |-> "",
     arrivals |-> 0, matching |-> 0, last_match |-> 0, ids |-> {},
     exit |-> <<>>]

Running == rx.pc \in {"top", "wait"}

\* the subscription callback on one message of the done subject; it runs
\* while the loop awaits the queue.  arrivals, matching, last_match and ids
\* observe the deliveries: how many, how many of the client's conversation,
\* when the last of those came, and their distinct message ids.
DoneCb ==
    /\ rx.pc = "wait"
    /\ rx.arrivals < MaxArrivals
    /\ \E data \in DoneMessages :
        LET mine == data.conversation_id = rx.conversation_id
        IN rx' = [rx EXCEPT
                    !.arrivals = @ + 1,
                    !.done_queue = IF Enqueues(data, rx.conversation_id)
                                   THEN Append(@, data) ELSE @,
                    !.matching = IF mine THEN @ + 1 ELSE @,
                    !.last_match = IF mine THEN rx.now ELSE @,
                    !.ids = IF mine THEN @ \cup {data.message_id} ELSE @]
    /\ UNCHANGED <<variant, bus, roots, hist, last>>

\* the top of `while True`: the overall check, then the await on the queue
LoopTop ==
    /\ rx.pc = "top"
    /\ \E exceeded \in OverallExceeds(rx) :
        rx' = IF exceeded
              THEN [rx EXCEPT !.pc = "stopped", !.reason = "overall"]
              ELSE [rx EXCEPT !.pc = "wait", !.wait_from = rx.now]
    /\ UNCHANGED <<variant, bus, roots, hist, last>>

\* wait_for(done_queue.get(), timeout=1.0) returns an item: the idle timer
\* restarts, the item is counted, the expected count is checked
TakeItem ==
    /\ rx.pc = "wait"
    /\ rx.done_queue # <<>>
    /\ LET received == rx.received + 1
       IN rx' = [rx EXCEPT !.done_queue = Tail(@),
                           !.idle_start = IdleStartOnItem(rx),
                           !.received = received,
                           !.pc = IF ReachedExpected(rx.expected_results, received)
                                  THEN "stopped" ELSE "top",
                           !.reason = IF ReachedExpected(rx.expected_results, received)
                                      THEN "expected" ELSE ""]
    /\ UNCHANGED <<variant, bus, roots, hist, last>>

\* wait_for raises TimeoutError after 1.0 s without an item: the idle check
PollTimesOut ==
    /\ rx.pc = "wait"
    /\ rx.done_queue = <<>>
    /\ rx.now = rx.wait_from + PollTimeout
    /\ \E exceeded \in IdleExceeds(rx) :
        rx' = IF exceeded
              THEN [rx EXCEPT !.pc = "stopped", !.reason = "idle"]
              ELSE [rx EXCEPT !.pc = "top"]
    /\ UNCHANGED <<variant, bus, roots, hist, last>>

\* half a second passes while the loop awaits an empty queue
Tick ==
    /\ rx.pc = "wait"
    /\ rx.done_queue = <<>>
    /\ rx.now < rx.wait_from + PollTimeout
    /\ rx.now < MaxClock
    /\ rx' = [rx EXCEPT !.now = @ + 1]
    /\ UNCHANGED <<variant, bus, roots, hist, last>>

\* after the loop: drain and close in `finally`, the log line with the count,
\* return None; main ends normally whatever the count is
ClientFinished ==
    /\ rx.pc = "stopped"
    /\ rx' = [rx EXCEPT !.pc = "exited", !.exit = <<ExitOk>>]
    /\ UNCHANGED <<variant, bus, roots, hist, last>>

InitClient ==
    /\ variant = "hier"
    /\ bus = {}
    /\ roots = <<>>
    /\ hist = [b \in {} |-> <<>>]
    /\ last = NoStep
    /\ \E cfg \in Timeouts, expected_results \in ExpectedResults :
          rx = LoopStart(cfg, expected_results)

NextClient ==
    \/ DoneCb
    \/ LoopTop
    \/ TakeItem
    \/ PollTimesOut
    \/ Tick
    \/ ClientFinished

SpecClient == InitClient /\ [][NextClient]_vars

----------------------------------------------------------------------------
(* C13 *)

Stopped == rx.pc \in {"stopped", "exited"}

\* C13: the receive loop is left as soon as the first of its three conditions
\* is observed (overall timeout since the publish, idle timeout since the last
\* matching message, expected count), and for every arrival pattern it is
\* left no later than overall_timeout plus one 1-second poll after the
\* publish.
C13_BoundedReceive ==
    /\ Running => rx.now - rx.start_ts <= rx.cfg.overall_timeout_sec + PollTimeout
    /\ Stopped =>
          /\ rx.now - rx.start_ts <= rx.cfg.overall_timeout_sec + PollTimeout
          /\ rx.reason \in {"overall", "idle", "expected"}
          /\ rx.reason = "overall" =>
                rx.now - rx.start_ts >= rx.cfg.overall_timeout_sec
          /\ rx.reason = "idle" =>
                rx.now - rx.idle_start >= rx.cfg.idle_timeout_sec
          /\ rx.reason = "expected" =>
                /\ rx.expected_results # <<>>
                /\ rx.received >= rx.expected_results[1]

\* a stream of matching messages that never lets the idle timer run out is cut
\* off by the overall timeout, one poll after the limit
C13_Witness ==
    /\ rx.pc = "stopped"
    /\ rx.reason = "overall"
    /\ rx.received = MaxArrivals
    /\ rx.now - rx.idle_start < rx.cfg.idle_timeout_sec
    /\ rx.now - rx.start_ts = rx.cfg.overall_timeout_sec + PollTimeout

----------------------------------------------------------------------------
(* C14 *)

\* C14: the idle deadline is rolling: every matching message the loop takes
\* restarts it, so the client never stops by idle timeout earlier than
\* idle_timeout after the most recent matching message, and when it stops by
\* idle timeout every matching message delivered before is counted.
C14_RollingIdle ==
    /\ (Running /\ rx.received > 0 /\ rx.done_queue = <<>>) =>
          rx.idle_start = rx.last_match
    /\ (Stopped /\ rx.reason = "idle") =>
          /\ rx.now - rx.last_match >= rx.cfg.idle_timeout_sec
          /\ rx.received = rx.matching
          /\ rx.done_queue = <<>>

\* idle 2 s, overall 10 s, the third of three matching messages at 1.5 s: the
\* client stops by idle timeout at 3.5 s with 3 results
C14_Witness ==
    /\ rx.cfg = [idle_timeout_sec |-> 4, overall_timeout_sec |-> 20]
    /\ rx.pc = "stopped"
    /\ rx.reason = "idle"
    /\ rx.last_match = 3
    /\ rx.now = 7
    /\ rx.received = 3

----------------------------------------------------------------------------
(* C15 *)

\* the loop with expected_results = N: never more than N collected, left by
\* the step that collects the N-th, and a stop for the expected count reports
\* exactly N
ExpectedCountRespected(N) ==
    /\ rx.received <= N
    /\ (rx.received >= N /\ rx.received > 0) => ~Running
    /\ (Stopped /\ rx.reason = "expected") => rx.received = N

\* C15 (as stated): with expected_results = N, for any N including 0 and 1,
\* the client stops as soon as N matching messages have been collected, the
\* count it reports is N and it never collects more than N.
C15_ExpectedCount ==
    (rx.pc # "none" /\ rx.expected_results # <<>>) =>
        ExpectedCountRespected(rx.expected_results[1])

\* C15 (amended): the above for every N >= 1; expected_results = 0 is "no
\* expectation", as None is: the loop is never left for the expected count.
C15_ExpectedCountPositive ==
    /\ (rx.pc # "none" /\ rx.expected_results # <<>> /\ rx.expected_results[1] >= 1) =>
          ExpectedCountRespected(rx.expected_results[1])
    /\ (rx.pc # "none" /\ rx.expected_results \in {<<>>, <<0>>}) =>
          rx.reason # "expected"

\* the client stopped at the expected count while a further matching message
\* was already delivered
C15_Witness ==
    /\ rx.pc = "stopped"
    /\ rx.reason = "expected"
    /\ rx.expected_results = <<MaxArrivals - 1>>
    /\ rx.received = MaxArrivals - 1
    /\ rx.done_queue # <<>>

\* with expected_results = 0 the client collected results until a timeout
C15_ZeroIsNoLimit ==
    /\ rx.pc = "stopped"
    /\ rx.expected_results = <<0>>
    /\ rx.received = MaxArrivals
    /\ rx.reason = "idle"

----------------------------------------------------------------------------
(* C16 *)

\* the later of the publish and the most recent matching delivery
LastMatchOrStart == IF rx.matching = 0 THEN rx.start_ts ELSE rx.last_match

\* C16: a message on the done subject whose conversation_id differs from the
\* client's is ignored: it is not enqueued, the count is unchanged (the count
\* plus the queue is the number of matching messages delivered) and the idle
\* timer is not restarted (the loop does not outlast idle_timeout plus one
\* poll after the last matching message, whatever else is delivered).
C16_ForeignIgnored ==
    rx.pc # "none" =>
        /\ \A i \in 1..Len(rx.done_queue) :
              rx.done_queue[i].conversation_id = rx.conversation_id
        /\ rx.received + Len(rx.done_queue) = rx.matching
        /\ Running =>
              rx.now - LastMatchOrStart <= rx.cfg.idle_timeout_sec + PollTimeout
        /\ (Running /\ rx.done_queue = <<>>) => rx.idle_start = LastMatchOrStart

\* only foreign messages were delivered: the client stopped by the idle
\* timeout counted from the publish, with no result
C16_Witness ==
    /\ rx.pc = "stopped"
    /\ rx.reason = "idle"
    /\ rx.arrivals = MaxArrivals
    /\ rx.matching = 0
    /\ rx.received = 0
    /\ rx.now - rx.start_ts <= rx.cfg.idle_timeout_sec + PollTimeout

----------------------------------------------------------------------------
(* C17 *)

\* C17: the client deduplicates results by message_id: the count it reports
\* never exceeds the number of distinct message_ids delivered for its
\* conversation, and a redelivered message does not count toward
\* expected_results.
C17_DedupByMessageId ==
    rx.pc # "none" =>
        /\ rx.received <= Cardinality(rx.ids)
        /\ (Stopped /\ rx.reason = "expected") =>
              Cardinality(rx.ids) >= rx.expected_results[1]

\* one result delivered twice ended a run that expected two results
C17_RedeliveryCounted ==
    /\ rx.pc = "stopped"
    /\ rx.reason = "expected"
    /\ rx.expected_results = <<2>>
    /\ rx.received = 2
    /\ Cardinality(rx.ids) = 1

----------------------------------------------------------------------------
(* C18 *)

\* C18: a client that stops with zero results ends with a failure outcome
\* (non-zero exit status); it ends with exit status 0 only when it collected
\* at least one FINAL.
C18_FailureOnNoResults ==
    rx.pc = "exited" => (rx.exit = <<ExitOk>> <=> rx.received >= 1)

\* the client timed out with nothing collected and ended with exit status 0
C18_SilentTimeout ==
    /\ rx.pc = "exited"
    /\ rx.reason \in {"idle", "overall"}
    /\ rx.received = 0
    /\ rx.exit = <<ExitOk>>

----------------------------------------------------------------------------
(* C19 *)

\* a branch never has more than one envelope in flight, so once its FINAL is
\* published no stage has an envelope of that branch to handle; other
\* branches of the same root may still be in flight
OneEnvelopePerBranch ==
    \A m1, m2 \in bus :
        (/\ HasBranch(variant, m1.data.message_id)
         /\ HasBranch(variant, m2.data.message_id)
         /\ BranchOf(variant, m1.data.message_id) = BranchOf(variant, m2.data.message_id))
            => m1 = m2

\* after the FINAL of the branch nothing else was handled or published
NothingAfterFinal ==
    Finals # {} =>
        /\ bus = Finals
        /\ Cardinality(Finals) = 1
        /\ last.stage = "verifier"
        /\ last.decision = "final"
        /\ SeqToSet(last.outs) = Finals

\* C19: FINAL is terminal for a branch: with exactly-once delivery a branch
\* that reached the Verifier produces exactly one FINAL, and after that FINAL
\* no stage publishes a further envelope of that branch.
C19_FinalTerminal ==
    /\ OneEnvelopePerBranch
    /\ NothingAfterFinal
    /\ (last.stage = "verifier" /\ InLoop = {}) => Cardinality(Finals) = 1

\* the same for the P2P pipeline alone
C19_FinalTerminalP2P ==
    variant = "p2p" => C19_FinalTerminal

\* the part of C19 that is about what follows a FINAL, for both pipelines
C19_AtMostOneFinal ==
    OneEnvelopePerBranch /\ NothingAfterFinal

\* the hierarchical Verifier ended a branch without a FINAL
C19_BranchWithoutFinal ==
    /\ variant = "hier"
    /\ HandledWellFormed("verifier")
    /\ bus = {}

\* a FINAL of one branch is out while a sibling branch is still in the loop
C19_SiblingInFlight ==
    \E m1 \in Finals, m2 \in InLoop :
        /\ m1.data.conversation_id = m2.data.conversation_id
        /\ BranchOf(variant, m1.data.message_id) # BranchOf(variant, m2.data.message_id)

----------------------------------------------------------------------------
(* Replicated stages: MaxReplicas processes of the Writer and of the        *)
(* Verifier, each subscribed as run() subscribes: nc.subscribe(subject,     *)
(* cb=_cb), without a queue group.  The server hands every message of a     *)
(* subject to every subscription on it.                                     *)

\* the subscriptions on a subject: the replicas of the stage, or the client
Subscribers(subject) ==
    IF subject = DONE_SUBJECT THEN {0} ELSE 1..MaxReplicas

\* one copy of the message for each subscription
Routed(msg) ==
    {[subject |-> msg.subject, data |-> msg.data, to |-> r] :
        r \in Subscribers(msg.subject)}

\* the uuid4 a process draws differs from the ones every other process draws
Stamp(msg, replica) ==
    [msg EXCEPT !.data.message_id = Append(@, replica)]

\* the id without the part that tells which process drew it
Unstamped(mid) == SubSeq(mid, 1, Len(mid) - 1)

\* replica `i` ran the callback of `stage` on its copy m
DeliverReplica(stage, i, m, res) ==
    /\ bus' = (bus \ {m}) \cup
                UNION {Routed(Stamp(res.outs[j], i)) : j \in 1..Len(res.outs)}
    /\ last' = [Step(stage, m, <<>>, res) EXCEPT !.override = <<i>>]
    /\ UNCHANGED <<variant, roots, hist, rx>>

\* the completion service answers every call of a replica: a text, a score
ReplicaDraftReplies == {r \in DraftReplies(variant) : r.kind = "text"}

ReplicaScoreReplies == {r \in ScoreReplies(variant, NumsSmall) : r.kind = "num"}

FirstAttempt(reply) == [i \in 1..StopAfterAttempt |-> reply]

WriterReplica ==
    \E m \in bus :
        /\ m.subject = WRITE_IN_SUBJECT
        /\ \E reply \in ReplicaDraftReplies :
            \/ /\ variant = "p2p"
               /\ DeliverReplica("writer", m.to, m,
                                  WriterMessageHandler(m.data, reply))
            \/ /\ variant = "hier"
               /\ DeliverReplica("writer", m.to, m,
                                  WriterHandle(m.data, FirstAttempt(reply)))

VerifierReplica ==
    \E m \in bus :
        /\ m.subject = VERIFY_IN_SUBJECT
        /\ \E reply \in ReplicaScoreReplies :
            \/ /\ variant = "p2p"
               /\ DeliverReplica("verifier", m.to, m,
                                  ReviewerMessageHandler(m.data, reply))
            \/ /\ variant = "hier"
               /\ DeliverReplica("verifier", m.to, m,
                                  VerifierHandle(m.data, FirstAttempt(reply)))

\* one envelope is published on the writer subject
InitReplicas ==
    /\ variant \in Variants
    /\ bus = Routed(Msg(WRITE_IN_SUBJECT, Inbound(variant, 0, 0)))
    /\ roots = <<>>
    /\ hist = [b \in {} |-> <<>>]
    /\ last = NoStep
    /\ rx = NoLoop

NextReplicas ==
    \/ WriterReplica
    \/ VerifierReplica

SpecReplicas == InitReplicas /\ [][NextReplicas]_vars

----------------------------------------------------------------------------
(* C20 *)

\* C20: with k >= 2 replicas of a stage subscribed as the code subscribes
\* them, each published envelope is handled by exactly one replica (no two
\* envelopes in flight are derived from the same envelope by different
\* replicas), so the branch ends with the FINAL count of a single replica.
C20_ReplicasInterchangeable ==
    /\ \A m1, m2 \in bus :
          (/\ m1.subject = m2.subject
           /\ m1.data.message_id # m2.data.message_id
           /\ Len(m1.data.message_id) = Len(m2.data.message_id))
              => Unstamped(m1.data.message_id) # Unstamped(m2.data.message_id)
    /\ Cardinality(Finals) <= 1

\* the branch of one envelope ended with more than one FINAL
C20_DuplicateFinals ==
    /\ bus = Finals
    /\ Cardinality(Finals) >= MaxReplicas * MaxReplicas

----------------------------------------------------------------------------
(* Two branches in the Writer/Verifier loop at once: two conversations in   *)
(* the P2P pipeline, two sections of one conversation in the hierarchical   *)
(* one, each with a retry budget of its own                                 *)

Branches == {0, 1}

\* the task text of branch k
TaskOf(k) == <<"task", k>>

\* the envelope that opens branch k on the writer subject
BranchSeed(v, k, max_retries) ==
    LET e == Inbound(v, 0, max_retries)
    IN IF v = "p2p"
       THEN [e EXCEPT !.message_id = <<k>>, !.conversation_id = k,
                      !.traceparent = new_traceparent(<<k>>),
                      !.payload.task = TaskOf(k)]
       ELSE [e EXCEPT !.message_id = <<0, 0, k>>,
                      !.payload.section = k, !.payload.task = TaskOf(k)]

\* the branch key of branch k
SeedBranch(k) == BranchOf(variant, BranchSeed(variant, k, 0).message_id)

\* the retry budgets of the two branches: different ones
BranchBudgets == {[k \in Branches |-> IF k = 0 THEN 1 ELSE MaxRetryBudget]}

\* the budgets of the two branches are kept in `roots`
InitBranches ==
    /\ variant \in Variants
    /\ \E budget \in BranchBudgets :
        /\ bus = {Msg(WRITE_IN_SUBJECT, BranchSeed(variant, k, budget[k])) :
                     k \in Branches}
        /\ roots = [i \in 1..2 |->
                      ClientRun(BranchSeed(variant, i - 1, 0).conversation_id,
                                budget[i - 1], TRUE)]
    /\ hist = [b \in {} |-> <<>>]
    /\ last = NoStep
    /\ rx = NoLoop

NextBranches ==
    \/ WriterP2P
    \/ WriterHier
    \/ ReviewerP2P(NumsSmall, TRUE)
    \/ VerifierHier(NumsSmall, TRUE)

SpecBranches == InitBranches /\ [][NextBranches]_vars

----------------------------------------------------------------------------
(* C21 *)

\* the revisions the Verifier published on a branch with decisions h
Revisions(h) ==
    Cardinality({i \in 1..Len(h) : h[i].decision = "revise" /\ h[i].published})

\* the decisions h are the ones the branch gets when it is processed alone
\* with this budget and these scores: retries 0, 1, 2, ..., the gate applied
\* to the branch's own score, retries and budget, and a next decision only
\* after a published revision request
AsAlone(h, budget) ==
    \A i \in 1..Len(h) :
        /\ h[i].max_retries = budget
        /\ h[i].retries = i - 1
        /\ h[i].decision = IF NeedsRevision(h[i].score, i - 1, budget)
                           THEN "revise" ELSE "final"
        /\ i < Len(h) => (h[i].decision = "revise" /\ h[i].published)

\* C21: branches do not interfere: whatever the interleaving of the handler
\* invocations over two branches, each branch's retries values, revisions and
\* FINAL payload are those of the branch processed alone, and the envelope a
\* branch has in flight carries that branch's own retries, max_retries and
\* payload; handling one branch never takes the other's envelope off the bus.
C21_BranchesIndependent ==
    \A k \in Branches :
        LET b == SeedBranch(k)
            h == HistOf(b)
            budget == roots[k + 1].max_retries
        IN /\ AsAlone(h, budget)
           /\ Cardinality(BranchMsgs(b)) <= 1
           /\ variant = "p2p" => Cardinality(BranchMsgs(b)) = 1
           /\ \A m \in BranchMsgs(b) :
                 /\ m.data.max_retries = budget
                 /\ m.data.retries = Revisions(h)
                 /\ m.data.conversation_id = roots[k + 1].cid
                 /\ "task" \in DOMAIN m.data.payload =>
                       m.data.payload.task = TaskOf(k)
                 /\ m.subject = DONE_SUBJECT =>
                       /\ h # <<>>
                       /\ h[Len(h)].decision = "final"
                       /\ m.data.payload.score = h[Len(h)].score
                       /\ \/ m.data.payload.draft = EmptyText
                          \/ BranchOf(variant, m.data.payload.draft.id) = b

\* one branch was revised twice while the other, with the smaller budget,
\* was finalized after one revision
C21_Witness ==
    /\ Revisions(HistOf(SeedBranch(1))) = MaxRetryBudget
    /\ Revisions(HistOf(SeedBranch(0))) = 1
    /\ \E m \in Finals : BranchOf(variant, m.data.message_id) = SeedBranch(0)
    /\ \E m \in InLoop : BranchOf(variant, m.data.message_id) = SeedBranch(1)

----------------------------------------------------------------------------
(* A malformed message on a stage's subject, next to the pipeline           *)

\* an object without the required fields; an object a field validator rejects
MissingFields == [conversation_id |-> 0, payload |-> [task |-> "task"]]

RejectedField(v) ==
    [Inbound(v, 0, 0) EXCEPT !.ttl_ms = 0]

\* the bodies the schema of the variant refuses
Malformed(v) ==
    Undecodable \cup {MissingFields}
        \cup (IF v = "hier" THEN {RejectedField(v)} ELSE {})

\* the subjects the stages of a variant consume from
StageSubjects(v) ==
    IF v = "p2p"
    THEN {RESEARCH_IN_SUBJECT, WRITE_IN_SUBJECT, VERIFY_IN_SUBJECT}
    ELSE {CHIEF_EDITOR_IN_SUBJECT, SECTION_EDITOR_IN_SUBJECT,
          WRITE_IN_SUBJECT, VERIFY_IN_SUBJECT}

\* some publisher put a malformed message on a stage's subject
InitMalformed ==
    /\ variant \in Variants
    /\ \E subject \in StageSubjects(variant), data \in Malformed(variant) :
          bus = {Msg(subject, data)}
    /\ roots = <<>>
    /\ hist = [b \in {} |-> <<>>]
    /\ last = NoStep
    /\ rx = NoLoop

SpecMalformed == InitMalformed /\ [][Next]_vars

\* the last step handled a body the variant's schema refuses
HandledMalformed ==
    /\ last.stage \in Stages
    /\ LastMsg.data \in Malformed(variant)

\* C22: a stage handler given a message that is not UTF-8, not JSON, not an
\* object or not a valid envelope returns having published nothing: the step
\* that takes the message off the bus leaves the rest of the bus as it was
C22_MalformedDropped ==
    [][\A m \in bus :
         (m.data \in Malformed(variant) /\ m \notin bus') =>
             /\ bus' = bus \ {m}
             /\ last'.stage \in Stages
             /\ last'.status = "dropped"
             /\ last'.outs = <<>>]_vars

\* a malformed message was dropped while a well-formed one waits on the bus
C22_Witness ==
    /\ HandledMalformed
    /\ last.status = "dropped"
    /\ \E m \in bus : /\ m.subject = LastMsg.subject
                       /\ A2AEnvelope(variant, m.data, <<>>) # <<>>

\* after the malformed message was dropped, a stage handled a well-formed one
\* and published
C22_WitnessGoesOn ==
    /\ last.stage \in Stages
    /\ last.status = "ok"
    /\ \A m \in bus : m.data \notin Malformed(variant)

----------------------------------------------------------------------------
(* The completion service failing: more replies than the retry may use      *)

\* the replies the service would give to StopAfterAttempt + 1 attempts: the
\* first n-1 raise, the rest are r
AttemptSeqsBeyond(replies, failing) ==
    {[i \in 1..(StopAfterAttempt + 1) |-> IF i < n THEN f ELSE r] :
        n \in 1..(StopAfterAttempt + 1), f \in failing, r \in replies}

LineAttemptsBeyond ==
    AttemptSeqsBeyond(LineReplies, {r \in LineReplies : r.kind = "raise"})

DraftAttemptsBeyond ==
    AttemptSeqsBeyond(DraftReplies("hier"),
                      {r \in DraftReplies("hier") : r.kind = "raise"})

InitAttempts == Init /\ variant = "hier"

NextAttempts ==
    \/ ClientHier
    \/ ChiefOn(LineAttemptsBeyond)
    \/ SectionOn(LineAttemptsBeyond)
    \/ WriterHierOn(DraftAttemptsBeyond, TRUE)
    \/ VerifierHier(NumsSmall, FALSE)

SpecAttempts == InitAttempts /\ [][NextAttempts]_vars

\* the stages that call the completion helper _complete
Completing == {"chief", "section", "writer"}

\* the handler of the last step, on the replies `replies`
Rehandled(replies) ==
    CASE last.stage = "chief" -> ChiefHandle(LastMsg.data, replies)
      [] last.stage = "section" -> SectionHandle(LastMsg.data, replies)
      [] last.stage = "writer" -> WriterHandle(LastMsg.data, replies)

\* attempt i of the last step raised
AttemptFailed(i) ==
    IF last.stage = "writer" THEN complete_attempt(last.llm[i], <<>>) = <<>>
    ELSE complete_lines_attempt(last.llm[i]) = <<>>

CompletingStep ==
    /\ last.stage \in Completing
    /\ A2AEnvelope(variant, LastMsg.data, <<>>) # <<>>

\* C23: Chief, Section editor and Writer make at most StopAfterAttempt
\* completion attempts for an inbound envelope (the outcome does not depend on
\* what a further attempt would have returned); when all of them fail the
\* handler returns having published nothing; what it publishes after failed
\* attempts carries the inbound retries counter unchanged
C23_ThreeAttempts ==
    CompletingStep =>
        /\ last.outs =
              Rehandled([last.llm EXCEPT ![StopAfterAttempt + 1] =
                                            [@ EXCEPT !.kind = "raise"]]).outs
        /\ (\A i \in 1..StopAfterAttempt : AttemptFailed(i)) =>
               (last.status = "dropped" /\ last.outs = <<>>)
        /\ \A k \in 1..Len(last.outs) :
               last.outs[k].data.retries = LastEnv.retries

\* three attempts failed, a fourth would have succeeded: nothing is published
C23_Witness ==
    /\ CompletingStep
    /\ \A i \in 1..StopAfterAttempt : AttemptFailed(i)
    /\ last.llm[StopAfterAttempt + 1].kind = "text"
    /\ last.status = "dropped"

\* two attempts failed and the third succeeded: the handler publishes
C23_WitnessThird ==
    /\ CompletingStep
    /\ \A i \in 1..(StopAfterAttempt - 1) : AttemptFailed(i)
    /\ last.status = "ok"
    /\ last.outs # <<>>

----------------------------------------------------------------------------
(* Trace context along a lineage                                            *)

\* W3C trace context of version "00": trace id, span id and flags of 32, 16
\* and 2 hex digits
WellFormed(tp) ==
    /\ Len(tp) = 4
    /\ tp[1] = Version00
    /\ \A i \in 1..4 : tp[i].hex
    /\ <<tp[1].len, tp[2].len, tp[3].len, tp[4].len>> = <<2, 32, 16, 2>>

\* "garbage"; four fields with a trace id, flags or span of the wrong length
\* or alphabet; a version other than "00"; five fields
MalformedTraceparents ==
    {<<Field(7, FALSE, "garbage")>>,
     <<Version00, Field(8, TRUE, "t"), token_hex(8, <<0>>), Field(2, TRUE, "01")>>,
     <<Version00, Field(32, FALSE, "t"), token_hex(8, <<0>>), Field(2, TRUE, "01")>>,
     <<Version00, token_hex(16, <<0>>), token_hex(8, <<0>>), Field(3, TRUE, "001")>>,
     <<Version00, token_hex(16, <<0>>), token_hex(8, <<0>>), Field(2, FALSE, "zz")>>,
     <<Version00, token_hex(16, <<0>>), Field(4, FALSE, "s"), Field(2, TRUE, "01")>>,
     <<Field(2, TRUE, "ff"), token_hex(16, <<0>>), token_hex(8, <<0>>),
       Field(2, TRUE, "01")>>,
     <<Version00, token_hex(16, <<0>>), token_hex(8, <<0>>), Field(2, TRUE, "01"),
       Field(2, TRUE, "00")>>}

Traceparents == {new_traceparent(<<0>>)} \cup MalformedTraceparents

\* an envelope with any of the trace contexts on the writer subject
InitTrace ==
    /\ variant \in Variants
    /\ \E tp \in Traceparents :
          bus = {Msg(WRITE_IN_SUBJECT,
                     [Inbound(variant, 0, MaxRetryBudget) EXCEPT !.traceparent = tp])}
    /\ roots = <<>>
    /\ hist = [b \in {} |-> <<>>]
    /\ last = NoStep
    /\ rx = NoLoop

\* env.child(...) on an envelope of the bus; the hierarchical child() takes
\* keep_span
DeriveSpan ==
    /\ \E m \in bus, keep_span \in BOOLEAN :
        LET parent == A2AEnvelope(variant, m.data, <<>>)
            fresh == ChildId(m.data.message_id, 1)
        IN /\ parent # <<>>
           /\ variant = "p2p" => ~keep_span
           /\ last' = [NoStep EXCEPT
                         !.stage = "child", !.inp = <<m>>, !.override = <<keep_span>>,
                         !.derived =
                            IF variant = "p2p"
                            THEN childP2P(parent[1], "verifier@v1", "writer@v1",
                                          [role |-> "verifier"], <<>>, fresh)
                            ELSE childHierSpan(parent[1], "verifier@v1", "writer@v1",
                                               [role |-> "verifier"], <<>>,
                                               keep_span, fresh)]
    /\ UNCHANGED <<variant, bus, roots, hist, rx>>

NextTrace ==
    \/ DeriveSpan
    \/ WriterP2P
    \/ WriterHier
    \/ ReviewerP2P(NumsSmall, FALSE)
    \/ VerifierHier(NumsSmall, FALSE)

SpecTrace == InitTrace /\ [][NextTrace]_vars

\* the trace contexts of the last step: the parent's, and those derived from it
ParentTp == LastMsg.data.traceparent

ChildTps ==
    IF last.stage = "child" THEN {last.derived[k].traceparent : k \in 1..Len(last.derived)}
    ELSE {last.outs[k].data.traceparent : k \in 1..Len(last.outs)}

Derives == last.stage \in Stages \cup {"child"}

KeepsSpan == last.stage = "child" /\ last.override = <<TRUE>>

C24_WitnessKeepSpan ==
    /\ KeepsSpan
    /\ WellFormed(ParentTp)
    /\ ChildTps = {ParentTp}

\* C25: the child of a malformed parent is a fresh, well-formed root: neither
\* its trace id nor anything else is taken from the parent
C25_MalformedGetsFreshRoot ==
    (Derives /\ ~KeepsSpan /\ ~WellFormed(ParentTp)) =>
        \A tp \in ChildTps :
            /\ WellFormed(tp)
            /\ tp = new_traceparent(tp[3].id.rand)

\* the child of "garbage" is a fresh root
C25_GarbageGetsFreshRoot ==
    /\ Derives
    /\ Len(ParentTp) = 1
    /\ \E tp \in ChildTps : tp = new_traceparent(tp[3].id.rand)

----------------------------------------------------------------------------
(* Scores of any value                                                      *)

\* numbers below, at and above the ends of the range, in tenths
NumsWide == {-50, 0, 5, 10, 40, 100, 150}

\* the number a reply holds is NaN
NaNReply == [kind |-> "nan", val |-> 0]

WideScores(v) == ScoreReplies(v, NumsWide) \cup {NaNReply}

InitScores ==
    /\ variant \in Variants
    /\ \E mr \in 0..1 : OnWriteSubject(0, mr)

NextScores ==
    \/ WriterP2P
    \/ WriterHier
    \/ ReviewerP2POn(WideScores("p2p"), TRUE)
    \/ VerifierHierOn(WideScores("hier"), TRUE)

SpecScores == InitScores /\ [][NextScores]_vars

InRange(score) == ScoreFloor <= score /\ score <= ScoreCeil

\* the reply the Verifier's score was taken from
UsedReply ==
    IF variant = "p2p" THEN last.llm[1]
    ELSE last.llm[CHOOSE i \in 1..StopAfterAttempt :
                    /\ score_attemptHier(EmptyText, last.llm[i]) # <<>>
                    /\ \A j \in 1..(i - 1) :
                          score_attemptHier(EmptyText, last.llm[j]) = <<>>]

VerifierScored == last.stage = "verifier" /\ last.scored # <<>>

\* C26: the score the Verifier compares with the threshold, and the score of
\* every FINAL, is within [ScoreFloor, ScoreCeil], whether it comes from a
\* number of any value the model returned or from the heuristic
C26_ScoreInRange ==
    /\ VerifierScored => InRange(last.scored[1])
    /\ \A m \in bus :
          m.subject = DONE_SUBJECT => InRange(m.data.payload.score)
    /\ \A b \in DOMAIN hist : \A i \in 1..Len(hist[b]) : InRange(hist[b][i].score)

\* the model returned a number outside the range, or NaN, and the FINAL was
\* published with a score in the range
C26_Witness ==
    /\ VerifierScored
    /\ \/ UsedReply = NaNReply
       \/ UsedReply.kind = "num" /\ ~InRange(UsedReply.val)
    /\ last.decision = "final"
    /\ last.status = "ok"

\* the score came from the heuristic
C26_WitnessHeuristic ==
    /\ VerifierScored
    /\ UsedReply.kind \in {"empty", "nonjson", "badscore"}
    /\ last.status = "ok"

\* the reply had no score key, or a score that is not a number
MalformedScore == UsedReply.kind \in {"noscore", "badscore"}

\* C27: a reply whose score is missing or not a number never yields a score
\* of 0 or of the range minimum (it yields the midpoint)
C27_MalformedScoreDefault ==
    (VerifierScored /\ MalformedScore) =>
        /\ last.scored[1] # 0
        /\ last.scored[1] # ScoreFloor
        /\ last.scored[1] >= HeuristicBase

\* a reply without a score key was scored with the range minimum
C27_MissingScoreIsMinimum ==
    /\ VerifierScored
    /\ UsedReply.kind = "noscore"
    /\ last.scored[1] = ScoreFloor

\* a score that is not a number was scored by the heuristic
C27_BadScoreIsHeuristic ==
    /\ VerifierScored
    /\ UsedReply.kind = "badscore"
    /\ last.scored[1] >= HeuristicBase

----------------------------------------------------------------------------
(* Connecting to NATS: the TLS context                                      *)

\* the processes of the hierarchical pipeline that connect
Processes == {"client", "streamlit", "chief", "section", "writer", "verifier"}

\* NATS_TLS in the environment: unset (<<>>) or a text
TlsEnv == {<<>>, <<"true">>, <<"1">>, <<"TRUE">>, <<"false">>, <<"0">>}

\* NATS_TLS_CAFILE: unset, empty, a PEM bundle, a path that cannot be loaded
CaFiles == {<<>>, <<"">>, <<"ca.pem">>, <<"missing.pem">>}

Loadable(cafile) == cafile = <<"ca.pem">>

\* str.lower() on the texts of TlsEnv
Lower(value) == IF value = "TRUE" THEN "true" ELSE value

\* _parse_bool(value) for a value that is not None
parse_bool(value) == Lower(value) \in {"1", "true", "t", "yes", "y", "on"}

\* _parse_bool(_env("NATS_TLS", default)): the Streamlit client defaults to
\* "false", every other process to "true"
TlsEnabled(process, env) ==
    IF env = <<>> THEN parse_bool(IF process = "streamlit" THEN "false" ELSE "true")
    ELSE parse_bool(env[1])

DefaultContext == [cafile |-> <<>>]

\* _build_tls_context: <<>> is None. With a CA file the CLI client calls
\* cfg.info(...), which Config does not have; ssl.create_default_context
\* raises on a file it cannot load; every exception is caught and gives None.
build_tls_context(process, enabled, cafile) ==
    IF ~enabled THEN <<>>
    ELSE IF cafile \notin {<<>>, <<"">>}
         THEN IF process = "client" THEN <<>>
              ELSE IF Loadable(cafile) THEN <<[cafile |-> cafile]>>
              ELSE <<>>
         ELSE <<DefaultContext>>

InitTls ==
    /\ variant = "hier"
    /\ bus = {}
    /\ roots = <<>>
    /\ hist = [b \in {} |-> <<>>]
    /\ last = NoStep
    /\ \E process \in Processes, env \in TlsEnv, cafile \in CaFiles :
          rx = [pc |-> "start", process |-> process, NATS_TLS |-> env,
                NATS_TLS_CAFILE |-> cafile, NATS_TLS_ENABLED |-> FALSE,
                tls |-> <<>>]

\* the module's configuration is read from the environment
LoadConfig ==
    /\ rx.pc = "start"
    /\ rx' = [rx EXCEPT !.pc = "config",
                         !.NATS_TLS_ENABLED = TlsEnabled(rx.process, rx.NATS_TLS)]
    /\ UNCHANGED <<variant, bus, roots, hist, last>>

BuildTlsContext ==
    /\ rx.pc = "config"
    /\ rx' = [rx EXCEPT !.pc = "built",
                         !.tls = build_tls_context(rx.process, rx.NATS_TLS_ENABLED,
                                                   rx.NATS_TLS_CAFILE)]
    /\ UNCHANGED <<variant, bus, roots, hist, last>>

\* nc.connect(servers=[nats://...], tls=tls_ctx, ...)
Connect ==
    /\ rx.pc = "built"
    /\ rx' = [rx EXCEPT !.pc = "connected"]
    /\ UNCHANGED <<variant, bus, roots, hist, last>>

NextTls ==
    \/ LoadConfig
    \/ BuildTlsContext
    \/ Connect

SpecTls == InitTls /\ [][NextTls]_vars

\* C28: a process configured with NATS_TLS true, with or without a CA file,
\* never connects without a TLS context
C28_NoSilentDowngrade ==
    (rx.pc = "connected" /\ rx.NATS_TLS_ENABLED) => rx.tls # <<>>

\* TLS is on, the CA file cannot be loaded, the process connected without TLS
C28_DowngradedOnBadCaFile ==
    /\ rx.pc = "connected"
    /\ rx.NATS_TLS_ENABLED
    /\ rx.process # "client"
    /\ rx.NATS_TLS_CAFILE = <<"missing.pem">>
    /\ rx.tls = <<>>

\* the CLI client connected without TLS although the CA file is a good bundle
C28_ClientDowngradedOnAnyCaFile ==
    /\ rx.pc = "connected"
    /\ rx.NATS_TLS_ENABLED
    /\ rx.process = "client"
    /\ Loadable(rx.NATS_TLS_CAFILE)
    /\ rx.tls = <<>>

\* TLS on and no CA file: the process connected with the default context
C28_TlsWithoutCaFile ==
    /\ rx.pc = "connected"
    /\ rx.NATS_TLS_ENABLED
    /\ rx.NATS_TLS_CAFILE = <<>>
    /\ rx.tls = <<DefaultContext>>

----------------------------------------------------------------------------
(* Fan-out limits of any integer value                                      *)

Limits == -1..MaxFanOut

\* a seed request with the limits the client was given
InitFanOut ==
    /\ variant = "hier"
    /\ \E max_topics \in Limits, max_sections \in Limits :
          bus = {Msg(CHIEF_EDITOR_IN_SUBJECT,
                     SeedEnvelope(max_topics, max_sections, 0, <<1>>))}
    /\ roots = <<>>
    /\ hist = [b \in {} |-> <<>>]
    /\ last = NoStep
    /\ rx = NoLoop

NextFanOut ==
    \/ Chief
    \/ Section

SpecFanOut == InitFanOut /\ [][NextFanOut]_vars

\* the limit the planner of the last step was given
LastLimit ==
    IF last.stage = "chief" THEN Get(LastMsg.data.payload, "max_topics", 5)
    ELSE Get(LastMsg.data.payload, "max_sections", 6)

\* the lines the model returned to the planner of the last step
LastLines ==
    LET text == complete_lines(last.llm, 1) IN IF text = <<>> THEN 0 ELSE text[1]

\* C29: the Chief publishes at most max_topics children and a Section editor
\* at most max_sections, for every integer value of the limit (none for a
\* limit below 0)
C29_FanOutBounded ==
    last.stage \in Planners => Len(last.outs) <= Max(LastLimit, 0)

\* a negative limit cut one line off the end of the list instead of
\* bounding it
C29_NegativeLimitFansOut ==
    /\ last.stage \in Planners
    /\ LastLimit < 0
    /\ Len(last.outs) = LastLines + LastLimit
    /\ Len(last.outs) > 0

\* a limit of at least 0 below the number of lines bounded the fan-out
C29_LimitApplied ==
    /\ last.stage \in Planners
    /\ LastLimit >= 0
    /\ LastLines > LastLimit
    /\ Len(last.outs) = LastLimit

----------------------------------------------------------------------------
(* Stage routing                                                            *)

\* the subjects a stage may publish on
RoutesOf(stage) ==
    CASE stage = "retriever" -> {WRITE_IN_SUBJECT}
      [] stage = "writer" -> {VERIFY_IN_SUBJECT}
      [] stage = "verifier" -> {WRITE_IN_SUBJECT, DONE_SUBJECT}
      [] stage = "chief" -> {SECTION_EDITOR_IN_SUBJECT}
      [] stage = "section" -> {WRITE_IN_SUBJECT}

\* the last step was a stage handling a valid envelope
HandledValid ==
    /\ last.stage \in Stages
    /\ A2AEnvelope(variant, LastMsg.data, <<>>) # <<>>

\* every publication of the last step is on a subject of its stage, never on
\* the subject the stage consumes from
RoutedAsFixed ==
    \A k \in 1..Len(last.outs) :
        /\ last.outs[k].subject \in RoutesOf(last.stage)
        /\ last.outs[k].subject # LastMsg.subject

\* the stage got what it needs from its collaborators: the P2P Writer falls
\* back to a stub, the Verifier has a score
CollaboratorsServed ==
    \/ last.stage = "writer" /\ variant = "p2p"
    \/ last.stage = "verifier" /\ last.scored # <<>>

\* C30: for a valid inbound envelope each stage publishes only on its fixed
\* subjects and never on the subject it consumes from, and Writer and
\* Verifier publish exactly one envelope
C30_FixedRouting ==
    HandledValid =>
        /\ RoutedAsFixed
        /\ CollaboratorsServed => Len(last.outs) = 1

\* the routing alone, with at most one envelope from Retriever, Writer and
\* Verifier
C30_RoutedAtMostOne ==
    HandledValid =>
        /\ RoutedAsFixed
        /\ last.stage \notin Planners => Len(last.outs) <= 1

\* the Verifier scored a valid envelope and published nothing
C30_VerifierPublishedNothing ==
    /\ HandledValid
    /\ last.stage = "verifier"
    /\ last.scored # <<>>
    /\ last.outs = <<>>

----------------------------------------------------------------------------
(* C31: fan-in of the hierarchical pipeline. One root on the Chief's       *)
(* subject, published by any client of the bus with a retry budget in the  *)
(* envelope; the completion service answers every request, so no handler   *)
(* fails on a collaborator; each envelope is delivered once                *)

\* outlines the completion service gives at the first attempt
LinesServed ==
    {[i \in 1..StopAfterAttempt |-> [kind |-> "text", lines |-> n]] : n \in 1..MaxFanOut}

\* drafts the completion service gives at the first attempt
DraftsServed ==
    {[i \in 1..StopAfterAttempt |-> [kind |-> "text", marks |-> m]] : m \in LlmMarks}

\* numeric scores the completion service gives at the first attempt
ScoresServed ==
    {[i \in 1..StopAfterAttempt |-> [kind |-> "num", val |-> x]] : x \in NumsSmall}

InitFanIn ==
    /\ variant = "hier"
    /\ \E max_topics \in 1..MaxFanOut, max_sections \in 1..MaxFanOut,
          max_retries \in 0..MaxRetryBudget :
        LET seed == SeedEnvelope(max_topics, max_sections, max_retries, <<1>>)
            envelope == [seed EXCEPT !.max_retries = max_retries]
        IN /\ bus = {Msg(CHIEF_EDITOR_IN_SUBJECT, envelope)}
           /\ roots = <<ClientRun(envelope.conversation_id, max_retries, TRUE)>>
    /\ hist = [b \in {} |-> <<>>]
    /\ last = NoStep
    /\ rx = NoLoop

\* the Chief's callback, with the number of topics it delegated kept under
\* the id of the envelope it planned
ChiefPlans ==
    /\ variant = "hier"
    /\ \E m \in bus :
        /\ m.subject = CHIEF_EDITOR_IN_SUBJECT
        /\ \E replies \in LinesServed :
            LET res == ChiefHandle(m.data, replies)
            IN /\ Deliver("chief", m, replies, res)
               /\ hist' = Record(m.data.message_id, [planned |-> Len(res.outs)])

\* the Section editor's callback, with the number of sections it delegated
SectionPlans ==
    /\ variant = "hier"
    /\ \E m \in bus :
        /\ m.subject = SECTION_EDITOR_IN_SUBJECT
        /\ \E replies \in LinesServed :
            LET res == SectionHandle(m.data, replies)
            IN /\ Deliver("section", m, replies, res)
               /\ hist' = Record(m.data.message_id, [planned |-> Len(res.outs)])

NextFanIn ==
    \/ ChiefPlans
    \/ SectionPlans
    \/ WriterHierOn(DraftsServed, FALSE)
    \/ VerifierHierAttempts(ScoresServed, TRUE)
    \/ ClientReceive

SpecFanIn == InitFanIn /\ [][NextFanIn]_vars

RootId == <<1>>

\* the topics the Chief planned for the root
PlannedTopics == IF RootId \in DOMAIN hist THEN hist[RootId][1].planned ELSE 0

\* the sections planned for topic t
PlannedSections(t) ==
    IF ChildId(RootId, t) \in DOMAIN hist THEN hist[ChildId(RootId, t)][1].planned ELSE 0

RECURSIVE SumSections(_)
SumSections(t) == IF t = 0 THEN 0 ELSE PlannedSections(t) + SumSections(t - 1)

\* the (topic, section) branches planned so far
PlannedBranches ==
    UNION {{ChildId(ChildId(RootId, t), sec) : sec \in 1..PlannedSections(t)} :
              t \in 1..PlannedTopics}

\* FINAL envelopes of the root's conversation on the done subject
FinalsOnBus ==
    {m \in bus : /\ m.subject = DONE_SUBJECT
                 /\ m.data.conversation_id = roots[1].cid}

\* FINAL envelopes of the root's conversation published so far: the ones the
\* subscribed client took and the ones still on the done subject
FinalsPublished == roots[1].received + Cardinality(FinalsOnBus)

\* the root was planned and nothing is left on a stage's subject
Quiescent ==
    /\ RootId \in DOMAIN hist
    /\ \A m \in bus : m.subject = DONE_SUBJECT

\* the Verifier's last decision on branch b was a published FINAL
Finalized(b) ==
    /\ b \in DOMAIN hist
    /\ hist[b][Len(hist[b])].decision = "final"
    /\ hist[b][Len(hist[b])].published

\* C31: when the pipeline has nothing left in flight, the FINAL envelopes of
\* the root's conversation are as many as the sections planned over all the
\* topics, one per (topic, section) branch, whatever revisions a branch needed
C31_FanInConservation ==
    Quiescent =>
        /\ FinalsPublished = SumSections(PlannedTopics)
        /\ \A b \in PlannedBranches : Finalized(b)

\* the same for the branches that never asked for a revision
C31_FanInWithoutRevision ==
    (/\ Quiescent
     /\ \A b \in PlannedBranches : Len(HistOf(b)) = 1 /\ hist[b][1].decision = "final")
        => FinalsPublished = SumSections(PlannedTopics)

\* two branches were planned, the pipeline is at rest and both have their FINAL
C31_WitnessAllFinal ==
    /\ Quiescent
    /\ SumSections(PlannedTopics) = MaxFanOut
    /\ FinalsPublished = MaxFanOut

\* a branch asked for a revision and the pipeline came to rest without its FINAL
C31_BranchLost ==
    /\ Quiescent
    /\ \E b \in PlannedBranches :
        /\ b \in DOMAIN hist
        /\ hist[b][Len(hist[b])].decision = "revise"
        /\ ~hist[b][Len(hist[b])].published
    /\ FinalsPublished < SumSections(PlannedTopics)

----------------------------------------------------------------------------
(* C32: the identity of a branch through the revision loop of the          *)
(* hierarchical pipeline                                                   *)

\* the Verifier of the hierarchical pipeline scored a valid envelope of a
\* (topic, section) branch and decided on a revision
VerifierRevised ==
    /\ variant = "hier"
    /\ last.stage = "verifier"
    /\ last.decision = "revise"
    /\ {"topic", "section"} \subseteq DOMAIN LastEnv.payload

\* the revision request the Verifier derived in the last step
RevisionRequest ==
    RevisionChildHier(
        LastEnv,
        score_with_llmHier(Get(LastEnv.payload, "draft", EmptyText), last.llm, 1)[1].fb)

\* the envelope says which (topic, section) it is for, as the scored one does
SameBranch(env) ==
    /\ {"topic", "section"} \subseteq DOMAIN env.payload
    /\ env.payload.topic = LastEnv.payload.topic
    /\ env.payload.section = LastEnv.payload.section

\* what the Writer's callback publishes for the revision request
Redraft ==
    WriterHandle(ModelDumpJson(RevisionRequest[1])[1],
                 [i \in 1..StopAfterAttempt |-> [kind |-> "text", marks |-> {}]]).outs

\* C32: the revision request the Verifier sends to the Writer carries the
\* topic and the section of the branch, and the redraft is written for them
C32_BranchIdentityKept ==
    VerifierRevised =>
        /\ RevisionRequest # <<>>
        /\ SameBranch(RevisionRequest[1])
        /\ Len(last.outs) = 1
        /\ last.outs[1].subject = WRITE_IN_SUBJECT
        /\ SameBranch(last.outs[1].data)
        /\ Len(Redraft) = 1
        /\ SameBranch(Redraft[1].data)

\* the revision request has no topic, no section and no style, and it is not
\* published
C32_RevisionWithoutBranch ==
    /\ VerifierRevised
    /\ RevisionRequest # <<>>
    /\ DOMAIN RevisionRequest[1].payload \cap {"topic", "section", "style"} = {}
    /\ last.outs = <<>>

\* the Writer's callback drafts such a request for its default topic and section
C32_RedraftForDefaults ==
    /\ VerifierRevised
    /\ Len(Redraft) = 1
    /\ Redraft[1].data.payload.topic = "Untitled"
    /\ Redraft[1].data.payload.section = "Section"
    /\ LastEnv.payload.topic # "Untitled"

\* the first draft of a branch keeps the topic and the section it was asked for
C32_FirstDraftKeepsBranch ==
    (/\ variant = "hier"
     /\ last.stage = "writer"
     /\ last.outs # <<>>
     /\ {"topic", "section"} \subseteq DOMAIN LastEnv.payload)
        => SameBranch(last.outs[1].data)

----------------------------------------------------------------------------
(* C33: the wait of the P2P client (send_task.py main after the            *)
(* subscription) under traffic on the done subject. Time is in units of    *)
(* one second of the client's clock, counted from the subscription         *)

\* the configured values the runs take RESPONSE_TIMEOUT_SECONDS and
\* MAX_WAIT_MESSAGES from
MaxResponseTimeout == 3
MaxWaitMessages == 3

OwnConversation == 1
OtherConversation == 2

FinalOf(cid) ==
    [message_id |-> <<cid, 1>>, conversation_id |-> cid, sender |-> "verifier@v1",
     target |-> "client@v1", payload |-> FinalPayload([id |-> <<cid>>, marks |-> {}], 90, <<>>),
     retries |-> 0, max_retries |-> SendTaskMaxRetries]

\* what a message on the done subject can hold
DoneTraffic ==
    {FinalOf(OwnConversation), FinalOf(OtherConversation),
     [raw |-> "nonutf8"], [raw |-> "nonjson"], [raw |-> "nonobject"]}

\* messages of other conversations and messages that are not JSON
ForeignTraffic == {FinalOf(OtherConversation), [raw |-> "nonutf8"], [raw |-> "nonjson"]}

\* the while condition and the start of the next sub.next_msg
AwaitNextMsg(r) ==
    IF r.messages_checked < r.MAX_WAIT_MESSAGES
    THEN [r EXCEPT !.messages_checked = @ + 1, !.wait_start = r.clock]
    ELSE [r EXCEPT !.pc = "closed", !.outcome = "exhausted"]

\* the body of the loop on one message
\*   not JSON (bytes that are not UTF-8 are replaced first): skipped
\*   JSON that is not an object: data.get raises, main ends in the finally
\*   another conversation: skipped
\*   the client's conversation: reported, validated or not
OnDoneMessage(r, data, conversation_id) ==
    CASE data \in {[raw |-> "nonutf8"], [raw |-> "nonjson"]} -> AwaitNextMsg(r)
      [] data = [raw |-> "nonobject"] -> [r EXCEPT !.pc = "closed", !.outcome = "raised"]
      [] OTHER ->
           IF Get(data, "conversation_id", <<>>) # conversation_id THEN AwaitNextMsg(r)
           ELSE [r EXCEPT !.pc = "closed", !.outcome = "matched"]

InitWait ==
    /\ variant = "p2p"
    /\ bus = {}
    /\ roots = <<ClientRun(OwnConversation, SendTaskMaxRetries, TRUE)>>
    /\ hist = [b \in {} |-> <<>>]
    /\ last = NoStep
    /\ \E timeout \in 1..MaxResponseTimeout, budget \in 1..MaxWaitMessages :
        rx = AwaitNextMsg([pc |-> "next_msg", RESPONSE_TIMEOUT_SECONDS |-> timeout,
                           MAX_WAIT_MESSAGES |-> budget, messages_checked |-> 0,
                           clock |-> 0, wait_start |-> 0, outcome |-> ""])

\* a second passes while the client is in sub.next_msg
WaitTick ==
    /\ rx.pc = "next_msg"
    /\ rx.clock - rx.wait_start < rx.RESPONSE_TIMEOUT_SECONDS
    /\ rx' = [rx EXCEPT !.clock = @ + 1]
    /\ last' = [NoStep EXCEPT !.stage = "tick"]
    /\ UNCHANGED <<variant, bus, roots, hist>>

\* sub.next_msg raises TimeoutError: nothing came for RESPONSE_TIMEOUT_SECONDS
NextMsgTimesOut ==
    /\ rx.pc = "next_msg"
    /\ rx.clock - rx.wait_start = rx.RESPONSE_TIMEOUT_SECONDS
    /\ rx' = [rx EXCEPT !.pc = "closed", !.outcome = "timeout"]
    /\ last' = [NoStep EXCEPT !.stage = "timeout"]
    /\ UNCHANGED <<variant, bus, roots, hist>>

\* sub.next_msg returns a message published on the done subject
NextMsgReturns ==
    /\ rx.pc = "next_msg"
    /\ rx.clock - rx.wait_start < rx.RESPONSE_TIMEOUT_SECONDS
    /\ \E data \in DoneTraffic :
        /\ rx' = OnDoneMessage(rx, data, roots[1].cid)
        /\ last' = [NoStep EXCEPT !.stage = "next_msg",
                                  !.inp = <<Msg(DONE_SUBJECT, data)>>]
    /\ UNCHANGED <<variant, bus, roots, hist>>

NextWait == WaitTick \/ NextMsgTimesOut \/ NextMsgReturns

SpecWait == InitWait /\ [][NextWait]_vars

Waiting == rx.pc = "next_msg"

\* the client ended without its result, on foreign traffic alone
GaveUp == rx.pc = "closed" /\ rx.outcome = "exhausted"

\* the last message the client took was the FINAL of its conversation
TookOwnFinal ==
    /\ last.stage = "next_msg"
    /\ last.inp[1].data = FinalOf(roots[1].cid)

\* C33: messages of other conversations and messages that are not JSON
\* neither make the client give up before RESPONSE_TIMEOUT_SECONDS nor keep
\* it waiting later than RESPONSE_TIMEOUT_SECONDS after subscribing, and a
\* FINAL of its conversation that it receives is reported
C33_WaitUnaffected ==
    /\ GaveUp => rx.clock >= rx.RESPONSE_TIMEOUT_SECONDS
    /\ Waiting => rx.clock <= rx.RESPONSE_TIMEOUT_SECONDS
    /\ TookOwnFinal => rx.outcome = "matched"

\* MAX_WAIT_MESSAGES foreign messages end the wait before the timeout
C33_GaveUpEarly ==
    /\ GaveUp
    /\ rx.clock < rx.RESPONSE_TIMEOUT_SECONDS
    /\ last.inp[1].data \in ForeignTraffic

\* every foreign message restarts the timeout: the client still waits later
\* than RESPONSE_TIMEOUT_SECONDS after subscribing
C33_WaitedLonger ==
    /\ Waiting
    /\ rx.clock > rx.RESPONSE_TIMEOUT_SECONDS
    /\ rx.messages_checked > 1

\* a FINAL of the client's conversation the client receives is reported, and
\* a wait no message interrupts ends at RESPONSE_TIMEOUT_SECONDS
C33_ReportedAndQuietBounded ==
    /\ TookOwnFinal => rx.outcome = "matched"
    /\ (Waiting /\ rx.messages_checked = 1) => rx.clock <= rx.RESPONSE_TIMEOUT_SECONDS
    /\ rx.outcome = "timeout" => rx.clock - rx.wait_start = rx.RESPONSE_TIMEOUT_SECONDS

\* the FINAL came after foreign messages and was reported
C33_ReportedAfterForeign ==
    /\ TookOwnFinal
    /\ rx.outcome = "matched"
    /\ rx.messages_checked > 1

----------------------------------------------------------------------------
(* C34, C35: the centralized A2A coordinator (CoordinatorAgent/            *)
(* coordinator.py): the graph START -> retrieve -> write -> verify ->      *)
(* (route: write | END) that CoordinatorExecutor.execute runs. Scores are  *)
(* in tenths, as in the pipelines                                          *)

\* the max_retries values of the requests and the length of the Verifier's
\* reply sequences
MaxCoordinatorRetries == 3
MaxVerdicts == 4

\* "score < 7" of _route
CoordinatorThreshold == 70

\* the scores the Verifier agent replies with: <<>> is a reply without "score"
Verdicts == {<<>>, <<40>>, <<50>>, <<69>>, <<70>>, <<90>>}

\* int(x) of a score: the fraction is cut off, towards zero
int(x) == IF x >= 0 THEN (x \div 10) * 10 ELSE -(((-x) \div 10) * 10)

\* the `initial` state of execute
InitialState(max_retries) == [max_retries |-> max_retries, attempts |-> 0]

\* _retrieve: the contexts go into the state
retrieve(state) == [k \in DOMAIN state \cup {"results"} |->
                       IF k = "results" THEN <<"context">> ELSE state[k]]

\* _write: one more attempt
write(state) ==
    [k \in DOMAIN state \cup {"answer", "attempts"} |->
        CASE k = "attempts" -> Get(state, "attempts", 0) + 1
          [] k = "answer" -> [draft |-> Get(state, "attempts", 0) + 1]
          [] OTHER -> state[k]]

\* _verify: the Verifier's score, 0 when the reply has none
verify(state, out) ==
    [k \in DOMAIN state \cup {"score"} |->
        IF k = "score" THEN int(IF out = <<>> THEN 0 ELSE out[1]) ELSE state[k]]

\* the router loops for as long as the attempts do not exceed the budget
routeOffByOne(state) ==
    IF /\ int(Get(state, "score", 0)) < CoordinatorThreshold
       /\ Get(state, "attempts", 0) <= Get(state, "max_retries", 2)
    THEN "write" ELSE "END"

\* _route
route(state) ==
    IF /\ int(Get(state, "score", 0)) < CoordinatorThreshold
       /\ Get(state, "attempts", 0) < Get(state, "max_retries", 2)
    THEN "write" ELSE "END"

\* the final payload of execute
CoordinatorPayload(final) ==
    [score |-> Get(final, "score", 0), attempts |-> Get(final, "attempts", 0),
     final_answer |-> Get(final, "answer", "")]

NoCalls == [retrieve |-> 0, write |-> 0, verify |-> 0]

\* rx is the run of the graph: the node to run next, the graph state, the
\* replies the Verifier agent gives in order, the calls made to each agent
\* and the payload emitted
InitCoordinator ==
    /\ variant = "p2p"
    /\ bus = {}
    /\ roots = <<>>
    /\ hist = [b \in {} |-> <<>>]
    /\ last = NoStep
    /\ \E max_retries \in -1..MaxCoordinatorRetries,
          verdicts \in [1..MaxVerdicts -> Verdicts] :
        rx = [pc |-> "retrieve", state |-> InitialState(max_retries),
              verdicts |-> verdicts, calls |-> NoCalls, payload |-> <<>>]

RetrieveNode ==
    /\ rx.pc = "retrieve"
    /\ rx' = [rx EXCEPT !.pc = "write", !.state = retrieve(@),
                        !.calls.retrieve = @ + 1]
    /\ last' = [NoStep EXCEPT !.stage = "retrieve"]
    /\ UNCHANGED <<variant, bus, roots, hist>>

WriteNode ==
    /\ rx.pc = "write"
    /\ rx' = [rx EXCEPT !.pc = "verify", !.state = write(@), !.calls.write = @ + 1]
    /\ last' = [NoStep EXCEPT !.stage = "write"]
    /\ UNCHANGED <<variant, bus, roots, hist>>

\* the verify node and the conditional edge out of it
VerifyNode ==
    /\ rx.pc = "verify"
    /\ rx.calls.verify < MaxVerdicts
    /\ LET state == verify(rx.state, rx.verdicts[rx.calls.verify + 1])
       IN rx' = [rx EXCEPT !.pc = route(state), !.state = state,
                           !.calls.verify = @ + 1]
    /\ last' = [NoStep EXCEPT !.stage = "verify"]
    /\ UNCHANGED <<variant, bus, roots, hist>>

\* execute after ainvoke returned: the final payload is enqueued
EmitFinal ==
    /\ rx.pc = "END"
    /\ rx' = [rx EXCEPT !.pc = "done", !.payload = <<CoordinatorPayload(rx.state)>>]
    /\ last' = [NoStep EXCEPT !.stage = "execute"]
    /\ UNCHANGED <<variant, bus, roots, hist>>

NextCoordinator == RetrieveNode \/ WriteNode \/ VerifyNode \/ EmitFinal

SpecCoordinator == InitCoordinator /\ [][NextCoordinator]_vars

\* ainvoke runs the graph to completion: every agent call returns, and the
\* node that is due runs
SpecCoordinatorFair == SpecCoordinator /\ WF_vars(NextCoordinator)

Ended == rx.pc \in {"END", "done"}

\* the shape of the loop in every state of a run
CoordinatorLoopShape ==
    /\ rx.calls.retrieve <= 1
    /\ rx.pc # "retrieve" => rx.calls.retrieve = 1
    /\ rx.calls.write = rx.calls.verify + (IF rx.pc = "verify" THEN 1 ELSE 0)
    /\ rx.calls.write <= Max(1, rx.state.max_retries)
    /\ last.stage = "verify" =>
          (rx.pc = "write" <=> /\ rx.state.score < CoordinatorThreshold
                               /\ rx.state.attempts < rx.state.max_retries)
    /\ Ended => rx.calls.write >= 1
    /\ rx.pc = "done" => rx.payload[1].attempts = rx.calls.write

C34_WitnessNoBudget ==
    /\ rx.pc = "done"
    /\ rx.state.max_retries <= 0
    /\ rx.calls.write = 1
    /\ rx.state.score < CoordinatorThreshold

----------------------------------------------------------------------------
(* C35: the coordinator's loop against the Writer/Verifier loop of the P2P *)
(* pipeline on the same scores and the same max_retries                    *)

\* the Writer/Verifier loop of the pipeline on the scores from the k-th on:
\* the Verifier's gate on each draft, the Writer redrafting each revision
\* request with the retries it carries
RECURSIVE PipelineRun(_, _, _, _)
PipelineRun(scores, k, retries, max_retries) ==
    LET score == Clamp(scores[k][1])
    IN IF k < Len(scores) /\ NeedsRevision(score, retries, max_retries)
       THEN PipelineRun(scores, k + 1, NextRetry(retries), max_retries)
       ELSE [drafts |-> k, score |-> score]

\* the coordinator ended a request whose budget the pipeline accepts, on
\* replies that all carry a whole-number score
ComparableRun ==
    /\ rx.pc = "done"
    /\ rx.state.max_retries >= 0
    /\ \A k \in 1..MaxVerdicts :
          rx.verdicts[k] # <<>> /\ int(rx.verdicts[k][1]) = rx.verdicts[k][1]

PipelineOnSame == PipelineRun(rx.verdicts, 1, 0, rx.state.max_retries)

SameOutcome ==
    /\ rx.calls.write = PipelineOnSame.drafts
    /\ rx.payload[1].score = PipelineOnSame.score

\* C35: with the same threshold, the same max_retries and the same scores the
\* coordinator and the pipeline call the Writer the same number of times and
\* end with the same score
C35_SameRetryLoop == ComparableRun => SameOutcome

\* max_retries 2 and the scores 4, 5, 9: the coordinator stops after two
\* drafts with 5, the pipeline writes three and ends with 9
C35_TwoDraftsAgainstThree ==
    /\ ComparableRun
    /\ rx.state.max_retries = 2
    /\ SubSeq(rx.verdicts, 1, 3) = <<<<40>>, <<50>>, <<90>>>>
    /\ rx.calls.write = 2
    /\ rx.payload[1].score = 50
    /\ PipelineOnSame = [drafts |-> 3, score |-> 90]

\* the two agree when the coordinator ends on an acceptable score or the
\* budget is zero
C35_SameWhenAccepted ==
    (/\ ComparableRun
     /\ rx.payload[1].score >= CoordinatorThreshold \/ rx.state.max_retries = 0)
        => SameOutcome

\* they agreed on a run with a revision
C35_AgreedAfterRevision ==
    /\ ComparableRun
    /\ rx.calls.write = 2
    /\ rx.payload[1].score >= CoordinatorThreshold
    /\ SameOutcome

----------------------------------------------------------------------------
(* C36, C37: the centralized LangGraph workflow (workflow.py build_graph): *)
(* the coordinator node routes to retriever, writer, verifier or END, and  *)
(* each of the three returns to the coordinator. The state keeps what the  *)
(* router reads: whether there are snippets, the draft, the verification   *)
(* (<<>> is the empty dict the Writer resets it to), the attempts          *)

\* prepare_initial_state: max_attempts; ui_streamlit.py: recursion_limit
WorkflowMaxAttempts == 3
recursion_limit == 25

\* "rating > 4" of route_from_coordinator
AcceptableAbove == 4

\* drafts the Writer's model returns, after strip()
WorkflowDrafts == {"", "draft"}

\* the verification dicts the Verifier node returns: a rating, or none
Verifications == {[feedback |-> "fb"]} \cup
                 {[rating |-> r, feedback |-> "fb"] : r \in {2, 4, 5, 8}}

prepare_initial_state == [attempts |-> 0, max_attempts |-> WorkflowMaxAttempts]

\* route_from_coordinator
route_from_coordinator(state) ==
    LET has_search == Get(state, "search_snippets", "") # ""
        has_draft == Get(state, "draft", "") # ""
        verification == Get(state, "verification", <<>>)
        attempts == Get(state, "attempts", 0)
        max_attempts == Get(state, "max_attempts", 3)
    IN CASE ~has_search -> "retriever"
         [] has_search /\ ~has_draft -> "writer"
         [] has_search /\ has_draft /\ attempts >= max_attempts -> "__end__"
         [] has_search /\ has_draft /\ attempts < max_attempts /\ verification = <<>>
              -> "verifier"
         [] OTHER -> IF Get(verification[1], "rating", 0) > AcceptableAbove
                     THEN "__end__" ELSE "writer"

\* the state with the delta a node returned merged in
Merged(state, delta) ==
    [k \in DOMAIN state \cup DOMAIN delta |->
        IF k \in DOMAIN delta THEN delta[k] ELSE state[k]]

\* writer_node: the delta it returns
writer_node(state, draft) ==
    [draft |-> draft, attempts |-> Get(state, "attempts", 0) + 1, verification |-> <<>>]

\* rx is the run of graph.stream: the node to run next, the graph state, the
\* super-steps taken and the Writer invocations
InitWorkflow ==
    /\ variant = "p2p"
    /\ bus = {}
    /\ roots = <<>>
    /\ hist = [b \in {} |-> <<>>]
    /\ last = NoStep
    /\ rx = [pc |-> "coordinator", state |-> prepare_initial_state, steps |-> 0,
             writer_calls |-> 0, empty_drafts |-> 0]

\* a node ran and the graph merged its delta: the next node is `to`
NodeStep(node, delta, to) ==
    /\ rx.pc = node
    /\ rx.steps < recursion_limit
    /\ rx' = [rx EXCEPT !.pc = to, !.state = Merged(@, delta), !.steps = @ + 1,
                        !.writer_calls = @ + (IF node = "writer" THEN 1 ELSE 0),
                        !.empty_drafts = @ + (IF node = "writer" /\ delta.draft = ""
                                              THEN 1 ELSE 0)]
    /\ last' = [NoStep EXCEPT !.stage = node]
    /\ UNCHANGED <<variant, bus, roots, hist>>

\* coordinator_node and the conditional edge out of it
CoordinatorNode ==
    /\ rx.pc = "coordinator"
    /\ NodeStep("coordinator", [messages |-> <<>>], route_from_coordinator(rx.state))

\* retriever_node: the aggregated snippets are never empty
RetrieverNode ==
    /\ rx.pc = "retriever"
    /\ \E snippets \in {"- title: content", "No results found."} :
          NodeStep("retriever", [search_snippets |-> snippets], "coordinator")

WriterNode ==
    /\ rx.pc = "writer"
    /\ \E draft \in WorkflowDrafts :
          NodeStep("writer", writer_node(rx.state, draft), "coordinator")

VerifierNode ==
    /\ rx.pc = "verifier"
    /\ \E verification \in Verifications :
          NodeStep("verifier", [verification |-> <<verification>>], "coordinator")

\* graph.stream raises when the step limit is reached before END
GraphRecursionError ==
    /\ rx.pc \notin {"__end__", "error"}
    /\ rx.steps = recursion_limit
    /\ rx' = [rx EXCEPT !.pc = "error"]
    /\ last' = [NoStep EXCEPT !.stage = "error"]
    /\ UNCHANGED <<variant, bus, roots, hist>>

NextWorkflow ==
    \/ CoordinatorNode
    \/ RetrieverNode
    \/ WriterNode
    \/ VerifierNode
    \/ GraphRecursionError

SpecWorkflow == InitWorkflow /\ [][NextWorkflow]_vars

HasSearch == Get(rx.state, "search_snippets", "") # ""
HasDraft == Get(rx.state, "draft", "") # ""
Unverified == Get(rx.state, "verification", <<>>) = <<>>

\* C36: whenever the state has snippets and a draft but no verification the
\* router returns "verifier", so the flow never ends with an unverified draft
C36_UnverifiedGoesToVerifier ==
    /\ (HasSearch /\ HasDraft /\ Unverified) =>
          route_from_coordinator(rx.state) = "verifier"
    /\ (rx.pc = "__end__" /\ HasDraft) => ~Unverified

\* the flow ended on the draft of the last attempt, which no Verifier saw
C36_EndedUnverified ==
    /\ rx.pc = "__end__"
    /\ HasDraft
    /\ Unverified
    /\ rx.state.attempts = rx.state.max_attempts

\* below the attempt limit an unverified draft does go to the Verifier
C36_VerifiedBelowLimit ==
    (HasSearch /\ HasDraft /\ Unverified /\ rx.state.attempts < rx.state.max_attempts)
        => route_from_coordinator(rx.state) = "verifier"

\* C37: the graph stops after at most max_attempts Writer invocations,
\* whatever the nodes return, an empty draft included
C37_StopsWithinAttempts ==
    /\ rx.writer_calls <= rx.state.max_attempts
    /\ rx.pc # "error"

\* a Writer that returns empty drafts is invoked beyond max_attempts, until
\* the step limit of the run ends it with an error
C37_EmptyDraftsLoop ==
    /\ rx.pc = "error"
    /\ rx.writer_calls > rx.state.max_attempts
    /\ rx.empty_drafts = rx.writer_calls

\* with drafts that are never empty the graph stays within max_attempts
\* Writer invocations and never reaches the step limit
C37_NonEmptyDraftsBounded ==
    rx.empty_drafts = 0 =>
        /\ rx.writer_calls <= rx.state.max_attempts
        /\ rx.pc # "error"
        /\ rx.steps < recursion_limit

\* the graph ended after max_attempts non-empty drafts
C37_EndedOnExhaustion ==
    /\ rx.pc = "__end__"
    /\ rx.empty_drafts = 0
    /\ rx.writer_calls = rx.state.max_attempts

----------------------------------------------------------------------------
(* C38: the way out of run(). A stage serves its subscription until the    *)
(* signal handler cancels the main task; the finally block then drains and *)
(* closes the connection. The Streamlit client leaves its receive loop and *)
(* does the same with one try block per call                               *)

\* envelopes that may wait in the subscription, and handled ones counted
MaxPending == 3
MaxHandled == 4

\* "stage": run() of a service, nc.drain() and nc.close() in one try block;
\* "streamlit": run_client_once, a try block for each
ShutdownShapes == {"stage", "streamlit"}

\* what nc.drain() can do: return with the subscription drained, raise with
\* the connection as it was, raise after the connection went down
DrainOutcomes == {"ok", "raised", "raised_closed"}

\* the finally block from nc.drain() on, for the outcome of the drain: the
\* calls made and the state the connection is left in
Finally(shape, conn, outcome) ==
    CASE outcome = "ok" -> [calls |-> <<"drain", "close">>, conn |-> "closed"]
      [] outcome # "ok" /\ shape = "streamlit" ->
           [calls |-> <<"drain", "close">>, conn |-> "closed"]
      [] OTHER ->
           [calls |-> <<"drain">>,
            conn |-> IF outcome = "raised_closed" THEN "closed" ELSE conn]

\* rx is the process: where run() is, the connection, the envelopes waiting
\* in the subscription, the envelopes handled, the calls of the finally block
InitShutdown ==
    /\ variant \in Variants
    /\ bus = {}
    /\ roots = <<>>
    /\ hist = [b \in {} |-> <<>>]
    /\ last = NoStep
    /\ \E shape \in ShutdownShapes :
        rx = [pc |-> "serving", shape |-> shape, conn |-> "connected",
              pending |-> 0, handled |-> 0, calls |-> <<>>,
              drained |-> 0, after_close |-> 0]

\* the server delivers an envelope to the subscription
Arrives ==
    /\ rx.conn = "connected"
    /\ rx.pending < MaxPending
    /\ rx.pending + rx.handled < MaxHandled
    /\ rx' = [rx EXCEPT !.pending = @ + 1]
    /\ last' = [NoStep EXCEPT !.stage = "arrive"]
    /\ UNCHANGED <<variant, bus, roots, hist>>

\* the callback handles a waiting envelope while run() sleeps
Handles ==
    /\ rx.pc = "serving"
    /\ rx.pending > 0
    /\ rx' = [rx EXCEPT !.pending = @ - 1, !.handled = @ + 1,
                        !.after_close = @ + (IF rx.conn = "closed" THEN 1 ELSE 0)]
    /\ last' = [NoStep EXCEPT !.stage = "handle"]
    /\ UNCHANGED <<variant, bus, roots, hist>>

\* _cancel cancels the main task (the client's loop ends): CancelledError is
\* caught and run() is at its finally block
Cancelled ==
    /\ rx.pc = "serving"
    /\ rx' = [rx EXCEPT !.pc = "finally"]
    /\ last' = [NoStep EXCEPT !.stage = "cancel"]
    /\ UNCHANGED <<variant, bus, roots, hist>>

\* the finally block: a drain that returns has let the callback handle what
\* was waiting; run() returns
FinallyBlock ==
    /\ rx.pc = "finally"
    /\ \E outcome \in DrainOutcomes :
        LET f == Finally(rx.shape, rx.conn, outcome)
            handled == IF outcome = "ok" THEN rx.pending ELSE 0
        IN rx' = [rx EXCEPT !.pc = "exited", !.conn = f.conn, !.calls = f.calls,
                            !.drained = handled, !.handled = @ + handled,
                            !.pending = @ - handled]
    /\ last' = [NoStep EXCEPT !.stage = "finally"]
    /\ UNCHANGED <<variant, bus, roots, hist>>

NextShutdown == Arrives \/ Handles \/ Cancelled \/ FinallyBlock

SpecShutdown == InitShutdown /\ [][NextShutdown]_vars

Exited == rx.pc = "exited"

\* C38: out of run() the subscription was drained and then the connection
\* closed, in that order; the connection ends closed on every path, a
\* drain that raises included; no envelope is handled after the close
C38_DrainThenClosed ==
    /\ Exited => rx.conn = "closed"
    /\ Exited => rx.calls = <<"drain", "close">>
    /\ rx.after_close = 0

\* a stage whose drain raised left run() with the connection not closed and
\* envelopes waiting in the subscription
C38_StageExitedOpen ==
    /\ Exited
    /\ rx.shape = "stage"
    /\ rx.calls = <<"drain">>
    /\ rx.conn = "connected"
    /\ rx.pending > 0

\* the order of the calls and the silence after the close hold on every
\* path; the connection ends closed on every path of the Streamlit client
\* and on the paths of a stage where the drain returns
C38_ClosedWhenDrainReturns ==
    /\ rx.calls \in {<<>>, <<"drain">>, <<"drain", "close">>}
    /\ rx.after_close = 0
    /\ (Exited /\ rx.shape = "streamlit") => rx.conn = "closed"
    /\ (Exited /\ rx.calls = <<"drain", "close">>) => rx.conn = "closed"
    /\ rx.conn = "closed" => rx.pc = "exited"

\* a stage drained two waiting envelopes and closed
C38_DrainedAndClosed ==
    /\ Exited
    /\ rx.shape = "stage"
    /\ rx.drained = 2
    /\ rx.conn = "closed"
    /\ rx.pending = 0

----------------------------------------------------------------------------
(* C39: the time to live of an envelope in the hierarchical pipeline. The  *)
(* clock is in milliseconds and moves in steps of TtlStep; created_at of a *)
(* derived envelope is the time of the derivation (its default_factory)    *)

TtlStep == 5000
MaxTtlClock == 30000

\* A2AEnvelope.is_expired(now)
is_expired(self, now) == now > self.created_at[2] + self.ttl_ms

\* the publications of a handler that ran at time `now`: each child was
\* created then
StampedAt(res, now) ==
    [res EXCEPT !.outs = [k \in 1..Len(res.outs) |->
                            [res.outs[k] EXCEPT !.data.created_at = <<"iso", now>>]]]

\* an envelope of the Section editor on the writer subject, created at 0 with
\* one of two lifetimes; rx is the clock
InitTtl ==
    /\ variant = "hier"
    /\ \E ttl_ms \in {TtlStep, DefaultTtlMs}, max_retries \in 0..1 :
        bus = {Msg(WRITE_IN_SUBJECT,
                   [InboundHier(0, max_retries) EXCEPT !.ttl_ms = ttl_ms])}
    /\ roots = <<>>
    /\ hist = [b \in {} |-> <<>>]
    /\ last = NoStep
    /\ rx = [pc |-> "clock", clock |-> 0]

ClockTick ==
    /\ rx.clock < MaxTtlClock
    /\ rx' = [rx EXCEPT !.clock = @ + TtlStep]
    /\ last' = [NoStep EXCEPT !.stage = "tick"]
    /\ UNCHANGED <<variant, bus, roots, hist>>

\* writer_service.py _handle at time rx.clock
WriterAt ==
    /\ \E m \in bus :
        /\ m.subject = WRITE_IN_SUBJECT
        /\ \E replies \in DraftsServed :
              Deliver("writer", m, <<>>, StampedAt(WriterHandle(m.data, replies), rx.clock))
    /\ UNCHANGED hist

\* verify_service.py _handle at time rx.clock
VerifierAt ==
    /\ \E m \in bus :
        /\ m.subject = VERIFY_IN_SUBJECT
        /\ \E replies \in ScoresServed :
              Deliver("verifier", m, <<>>,
                      StampedAt(VerifierHandle(m.data, replies), rx.clock))
    /\ UNCHANGED hist

NextTtl == ClockTick \/ WriterAt \/ VerifierAt

SpecTtl == InitTtl /\ [][NextTtl]_vars

\* the last step was a stage handling an envelope whose ttl had elapsed
HandledExpired ==
    /\ last.stage \in Stages
    /\ A2AEnvelope(variant, LastMsg.data, <<>>) # <<>>
    /\ is_expired(LastEnv, rx.clock)

\* C39: a stage that handles an envelope whose ttl has elapsed publishes
\* nothing; a derived envelope inherits its parent's ttl_ms, counted from
\* its own creation
C39_StaleNotActedOn ==
    /\ HandledExpired => last.outs = <<>>
    /\ \A k \in 1..Len(last.outs) :
          /\ last.outs[k].data.ttl_ms = LastEnv.ttl_ms
          /\ last.outs[k].data.created_at[2] = rx.clock

\* the Writer drafted an envelope whose ttl had elapsed, and the draft it
\* published is alive for another ttl_ms
C39_StaleDrafted ==
    /\ HandledExpired
    /\ last.stage = "writer"
    /\ Len(last.outs) = 1
    /\ last.outs[1].subject = VERIFY_IN_SUBJECT
    /\ ~is_expired(last.outs[1].data, rx.clock)

\* the FINAL of a lineage came after the ttl of its first envelope
C39_StaleFinalized ==
    /\ HandledExpired
    /\ last.stage = "verifier"
    /\ Len(last.outs) = 1
    /\ last.outs[1].subject = DONE_SUBJECT
    /\ rx.clock > 2 * LastEnv.ttl_ms

\* every derived envelope has its parent's ttl_ms and the time of its
\* derivation as created_at
C39_TtlInherited ==
    \A k \in 1..Len(last.outs) :
        /\ last.outs[k].data.ttl_ms = LastEnv.ttl_ms
        /\ last.outs[k].data.created_at[2] = rx.clock
        /\ ~is_expired(last.outs[k].data, rx.clock)

====
